---- MODULE Spec2Model ----
(***************************************************************************)
(* Exit decision engine of the trading pipeline: TradeManager.manage_exit  *)
(* (src/app/trade_manager.py), the rule table it reads through             *)
(* RulesConfig (src/app/config.py), and the caller's decide-then-commit    *)
(* cycle on one Position, for one caller and for several evaluation       *)
(* contexts working side by side.                                          *)
(*                                                                         *)
(* Numbers.  Prices are whole currency units and thresholds whole          *)
(* percents; every comparison the code makes on floats is made here on     *)
(* the exact rationals by cross-multiplication.  On the price and          *)
(* threshold sets below the float expressions of the source give the same  *)
(* comparison results as the exact ones.  take_profit_lvl1_part is kept    *)
(* in hundredths (40 stands for 0.4).  Times are whole minutes.            *)
(* In the entry pipeline sentiment and reliability are in hundredths,      *)
(* price changes (dP_1m, dP_5m) and volume ratios in tenths, spreads in    *)
(* basis points.  In the risk guard fractions of equity (daily_pnl_pct,   *)
(* exposures, *_pct rules) are in ten-thousandths (1500 stands for 0.15),  *)
(* equity, mid and position sizes in whole dollars, entry_price_target in  *)
(* cents; a position size that is not a whole number is kept as the exact  *)
(* rational num / den.                                                     *)
(***************************************************************************)
EXTENDS Integers, FiniteSets, Sequences, TLC

VARIABLES
    rules,          \* TradeManager.rules: the configuration object
    position,       \* the Position the caller holds
    market_price,   \* market_price argument of the last manage_exit call
    now,            \* now argument of the last manage_exit call (minutes)
    result,         \* what the last manage_exit call returned (or raised)
    pc,             \* "open": no call in flight, "decided": result not yet
                    \* committed, "closed": a FULL_SELL was committed
    calls,          \* number of manage_exit calls made on the position
    lvl1_count,     \* history: number of LVL1_PROFIT decisions returned
    seen_above,     \* history: some observed price was > entry_price
    prev_peak,      \* history: new_peak of the last committed decision, 0 if none
    entry_qty,      \* history: the quantity the position was opened with
    sold,           \* history: shares sold by the committed decisions
    positions,      \* several contexts: the Position objects, by position id
    ctx,            \* several contexts: what each evaluation context has in flight
    log,            \* history, by position id: the Position at the start, the
                    \* (market_price, now) pairs and the decisions of its calls
    local_exit_rules, \* manage_exit's local exit_rules while a call is running
    rules_at_start, \* history: the rule table in force when the last call began
    reloads,        \* number of RulesConfig.reload() calls made
    db_positions,   \* Storage: the rows of the positions table
    loaded,         \* what the last get_open_positions() returned
    saved,          \* history: the Positions handed to save_position, in order
    rules_yaml,     \* RulesConfig._rules: the sections loaded from rules.yaml
    event,          \* the EventCard under evaluation
    market,         \* the MarketState under evaluation
    pre_signal,     \* the PreSignal returned by RuleEngine.evaluate
    portfolio,      \* the PortfolioState given to approve_signal
    approved_signal,\* the ApprovedSignal returned by approve_signal
    late_calls,     \* history: calls made once the hold time had elapsed
    run_mode,       \* Settings.run_mode
    client,         \* BrokerExecutor.client: "None" or "TradingClient"
    client_called,  \* history: some method of the client was called
    broker_orders,  \* the orders the broker accepted, in order
    orders,         \* Storage: the rows of the orders table
    signal,         \* the ApprovedSignal given to the last execute call
    exec_return,    \* what the last execute or close_position call returned
    execs,          \* number of execute and close_position calls made
    last_op,        \* the last BrokerExecutor method called
    processed       \* number of tickers _process_event has gone through

\* the state of the single-caller cycle, and of the several-contexts one
onevars == <<position, market_price, now, result, pc, calls,
             lvl1_count, seen_above, prev_peak, entry_qty, sold>>
parvars == <<positions, ctx, log>>
\* a call taken in its two steps, with reloads of the rules in between
reloadvars == <<local_exit_rules, rules_at_start, reloads>>
\* the positions table of the database and what was read from it
storevars == <<db_positions, loaded, saved>>
\* RuleEngine.evaluate: its configuration sections, arguments and result
rulevars == <<rules_yaml, event, market, pre_signal>>
\* RiskGuard.approve_signal: the portfolio it is given and its result
riskvars == <<portfolio, approved_signal>>
\* the caller protocol followed until the position is closed
livevars == <<late_calls>>
\* BrokerExecutor: its mode and client, the broker account, the orders table
brokervars == <<run_mode, client, client_called, broker_orders, orders, signal,
                exec_return, execs, last_op>>
\* AutoTrader._process_event: the tickers gone through
tradervars == <<processed>>
\* the state of the other components of the pipeline
compvars == <<reloadvars, storevars, rulevars, riskvars, livevars, brokervars,
              tradervars>>

\* for each part of the model, the state of all the others
beside_reload == <<parvars, storevars, rulevars, riskvars, livevars, brokervars,
                   tradervars>>
beside_store == <<parvars, reloadvars, rulevars, riskvars, livevars, brokervars,
                  tradervars>>
beside_rule == <<rules, onevars, parvars, reloadvars, storevars, riskvars,
                livevars, brokervars, tradervars>>
beside_risk == <<rules, onevars, parvars, reloadvars, storevars,
                livevars, brokervars, tradervars>>
beside_live == <<parvars, reloadvars, storevars, rulevars, riskvars, brokervars, tradervars>>
beside_broker == <<rules, onevars, parvars, reloadvars, loaded, saved, livevars, tradervars>>
beside_broker_trader == <<rules, onevars, parvars, reloadvars, loaded, saved, livevars>>

vars == <<rules, position, market_price, now, result, pc, calls,
          lvl1_count, seen_above, prev_peak, entry_qty, sold, positions, ctx, log,
          compvars>>

----------------------------------------------------------------------------
(* Bounds of the model *)

MaxCalls == 3

EntryPrices == {100, 200}
\* price levels in percent of the entry price
PriceLevels == {90, 95, 96, 97, 100, 108, 114, 120, 190, 200}
Quantities == {1, 2, 7, 10, 100}
EntryTime == 5
Times == {5, 35, 64, 65}

PricesOf(entry_price) == {(entry_price * l) \div 100 : l \in PriceLevels}

----------------------------------------------------------------------------
(* Helpers *)

Max(a, b) == IF a >= b THEN a ELSE b

Abs(x) == IF x >= 0 THEN x ELSE -x

\* Python's int() on a quotient n/d, d > 0: truncation toward zero
Trunc(n, d) == IF n >= 0 THEN n \div d ELSE -((-n) \div d)

\* dict.get(key, default)
Get(d, key, default) == IF key \in DOMAIN d THEN d[key] ELSE default

----------------------------------------------------------------------------
(* The configuration collaborator *)

\* The sections RulesConfig exposes as properties.
RulesConfigProperties == {"entry", "skip", "risk", "execution", "monitoring"}

EmptyDict == [k \in {} |-> 0]

\* get_rules(): the RulesConfig singleton.  It has no exit property.
RulesConfig == [properties |-> RulesConfigProperties, exit |-> EmptyDict]

\* A rule table: a configuration object that exposes an exit section.
RuleTable(exit_section) ==
    [properties |-> RulesConfigProperties \cup {"exit"}, exit |-> exit_section]

\* exit sections: an empty one (every threshold defaults) and a full one
CustomExit ==
    [k \in {"hard_stop_pct", "take_profit_lvl1_pct", "take_profit_lvl1_part",
            "trailing_stop_pct", "hold_minutes"} |->
        CASE k = "hard_stop_pct" -> 10
          [] k = "take_profit_lvl1_pct" -> 14
          [] k = "take_profit_lvl1_part" -> 50
          [] k = "trailing_stop_pct" -> 5
          [] k = "hold_minutes" -> 30]

\* an exit section that sets the level-1 fraction to 1.0 and nothing else
FullPartExit == [k \in {"take_profit_lvl1_part"} |-> 100]

ExitSections == {EmptyDict, CustomExit, FullPartExit}

RuleTables == {RuleTable(e) : e \in ExitSections}

HasExit(r) == "exit" \in r.properties

----------------------------------------------------------------------------
(* Position and decisions *)

\* current_price 0 stands for the falsy values (None, 0.0) of the field
Positions ==
    [entry_price : EntryPrices, quantity : Quantities, entry_time : {EntryTime},
     current_price : {0} \cup UNION {PricesOf(e) : e \in EntryPrices},
     partial_sold : BOOLEAN]

\* a position right after its creation
FreshPositions ==
    {p \in Positions : p.current_price \in {0, p.entry_price} /\ ~p.partial_sold}

Decision(action, reason, sell_qty, sell_price, peak) ==
    [action |-> action, reason |-> reason, sell_qty |-> sell_qty,
     sell_price |-> sell_price, new_peak |-> peak]

Raise(exception) == Decision("RAISE", exception, 0, 0, 0)

NoResult == Decision("NO_CALL", "NO_CALL", 0, 0, 0)

Returned(res) == res.action \in {"HOLD", "PARTIAL_SELL", "FULL_SELL"}

----------------------------------------------------------------------------
(* TradeManager.manage_exit *)

\* Faulty variant of current_peak: the stored value is used even when unset.
current_peak_no_fallback(pos) == pos.current_price

\* current_peak = position.current_price or position.entry_price
current_peak(pos) ==
    IF pos.current_price # 0 THEN pos.current_price ELSE pos.entry_price

\* Faulty variant of new_peak: the peak follows the price down.
new_peak_is_price(pos, mp) == mp

\* new_peak = max(current_peak, market_price)
new_peak(pos, mp) == Max(current_peak(pos), mp)

\* pnl_pct = ((market_price - entry_price) / entry_price) * 100, as the
\* rational pnl_num / pnl_den
pnl_num(pos, mp) == (mp - pos.entry_price) * 100
pnl_den(pos) == pos.entry_price

\* n/d <= k and n/d >= k for d # 0
RatLe(n, d, k) == IF d > 0 THEN n <= k * d ELSE n >= k * d
RatGe(n, d, k) == IF d > 0 THEN n >= k * d ELSE n <= k * d

\* Faulty variant of hold_time: the entry time is not subtracted.
hold_time_ignores_entry(pos, t) == t

\* hold_time = (now - position.entry_time) in minutes
hold_time(pos, t) == t - pos.entry_time

\* Faulty variant of hard_stop_hit: strict comparison.
hard_stop_hit_strict(exit_rules, pos, mp) ==
    ~RatGe(pnl_num(pos, mp), pnl_den(pos), -Get(exit_rules, "hard_stop_pct", 4))

\* 1. pnl_pct <= -hard_stop_pct
hard_stop_hit(exit_rules, pos, mp) ==
    RatLe(pnl_num(pos, mp), pnl_den(pos), -Get(exit_rules, "hard_stop_pct", 4))

\* Faulty variant of lvl1_hit: partial_sold is not consulted.
lvl1_hit_ignores_partial_sold(exit_rules, pos, mp) ==
    /\ RatGe(pnl_num(pos, mp), pnl_den(pos), Get(exit_rules, "take_profit_lvl1_pct", 8))
    /\ pos.quantity > 0

\* 2. pnl_pct >= take_profit_lvl1_pct and current_qty > 0 and not partial_sold
lvl1_hit(exit_rules, pos, mp) ==
    /\ RatGe(pnl_num(pos, mp), pnl_den(pos), Get(exit_rules, "take_profit_lvl1_pct", 8))
    /\ pos.quantity > 0
    /\ ~pos.partial_sold

\* Faulty variant of partial_qty: the fraction is taken as a multiple of the
\* quantity, without the scale of a fraction.
partial_qty_unscaled(exit_rules, pos) ==
    pos.quantity * Get(exit_rules, "take_profit_lvl1_part", 40)

\* Faulty variant of partial_qty: round(), to the nearest share.
partial_qty_round_nearest(exit_rules, pos) ==
    Trunc(pos.quantity * Get(exit_rules, "take_profit_lvl1_part", 40) + 50, 100)

\* partial_qty = int(current_qty * take_profit_lvl1_part)
partial_qty(exit_rules, pos) ==
    Trunc(pos.quantity * Get(exit_rules, "take_profit_lvl1_part", 40), 100)

\* Faulty variant of trail_armed: armed at the entry price already.
trail_armed_at_entry(pos, mp) == new_peak(pos, mp) >= pos.entry_price

\* 3. new_peak > entry_price: only trail if in profit
trail_armed(pos, mp) == new_peak(pos, mp) > pos.entry_price

\* Faulty variant of trail_hit: strict comparison.
trail_hit_strict(exit_rules, pos, mp) ==
    mp * 100 < new_peak(pos, mp) * (100 - Get(exit_rules, "trailing_stop_pct", 5))

\* market_price <= trail_trigger, trail_trigger = new_peak * (1 - trailing_stop_pct / 100)
trail_hit(exit_rules, pos, mp) ==
    mp * 100 <= new_peak(pos, mp) * (100 - Get(exit_rules, "trailing_stop_pct", 5))

\* 4. hold_time >= hold_minutes
time_hit(exit_rules, pos, t) ==
    hold_time(pos, t) >= Get(exit_rules, "hold_minutes", 60)

\* Faulty variant of HoldReason: the fixed token NONE in place of the text.
HoldReason_none == "NONE"

\* the reason string of a HOLD: f"In position: +{pnl_pct:.1f}%, {hold_time:.0f}m",
\* kept up to its numbers
HoldReason == "In position"

\* Faulty variant of decide: the time limit is checked before the price rules.
decide_time_first(exit_rules, pos, mp, t) ==
    IF time_hit(exit_rules, pos, t)
    THEN Decision("FULL_SELL", "TIME_LIMIT", Abs(pos.quantity), mp, new_peak(pos, mp))
    ELSE IF hard_stop_hit(exit_rules, pos, mp)
    THEN Decision("FULL_SELL", "HARD_STOP", Abs(pos.quantity), mp, new_peak(pos, mp))
    ELSE IF lvl1_hit(exit_rules, pos, mp) /\ partial_qty(exit_rules, pos) > 0
    THEN Decision("PARTIAL_SELL", "LVL1_PROFIT", partial_qty(exit_rules, pos), mp,
                  new_peak(pos, mp))
    ELSE IF trail_armed(pos, mp) /\ trail_hit(exit_rules, pos, mp)
    THEN Decision("FULL_SELL", "TRAILING_STOP", Abs(pos.quantity), mp, new_peak(pos, mp))
    ELSE Decision("HOLD", HoldReason, 0, 0, new_peak(pos, mp))

\* Faulty variant of decide: the trailing stop is checked before the partial
\* profit taking.
decide_trail_before_lvl1(exit_rules, pos, mp, t) ==
    IF hard_stop_hit(exit_rules, pos, mp)
    THEN Decision("FULL_SELL", "HARD_STOP", Abs(pos.quantity), mp, new_peak(pos, mp))
    ELSE IF trail_armed(pos, mp) /\ trail_hit(exit_rules, pos, mp)
    THEN Decision("FULL_SELL", "TRAILING_STOP", Abs(pos.quantity), mp, new_peak(pos, mp))
    ELSE IF lvl1_hit(exit_rules, pos, mp) /\ partial_qty(exit_rules, pos) > 0
    THEN Decision("PARTIAL_SELL", "LVL1_PROFIT", partial_qty(exit_rules, pos), mp,
                  new_peak(pos, mp))
    ELSE IF time_hit(exit_rules, pos, t)
    THEN Decision("FULL_SELL", "TIME_LIMIT", Abs(pos.quantity), mp, new_peak(pos, mp))
    ELSE Decision("HOLD", HoldReason, 0, 0, new_peak(pos, mp))

\* Faulty variant of decide: a partial sale of zero shares is not skipped.
decide_no_qty_check(exit_rules, pos, mp, t) ==
    IF hard_stop_hit(exit_rules, pos, mp)
    THEN Decision("FULL_SELL", "HARD_STOP", Abs(pos.quantity), mp, new_peak(pos, mp))
    ELSE IF lvl1_hit(exit_rules, pos, mp)
    THEN Decision("PARTIAL_SELL", "LVL1_PROFIT", partial_qty(exit_rules, pos), mp,
                  new_peak(pos, mp))
    ELSE IF trail_armed(pos, mp) /\ trail_hit(exit_rules, pos, mp)
    THEN Decision("FULL_SELL", "TRAILING_STOP", Abs(pos.quantity), mp, new_peak(pos, mp))
    ELSE IF time_hit(exit_rules, pos, t)
    THEN Decision("FULL_SELL", "TIME_LIMIT", Abs(pos.quantity), mp, new_peak(pos, mp))
    ELSE Decision("HOLD", HoldReason, 0, 0, new_peak(pos, mp))

\* Faulty variant of decide: after a partial sale a full sell adds the
\* level-1 part back, as if the position still had its earlier size.
decide_full_sell_adds_part(exit_rules, pos, mp, t) ==
    LET full_qty == IF pos.partial_sold
                    THEN Abs(pos.quantity) + partial_qty(exit_rules, pos)
                    ELSE Abs(pos.quantity)
    IN  IF hard_stop_hit(exit_rules, pos, mp)
        THEN Decision("FULL_SELL", "HARD_STOP", full_qty, mp, new_peak(pos, mp))
        ELSE IF lvl1_hit(exit_rules, pos, mp) /\ partial_qty(exit_rules, pos) > 0
        THEN Decision("PARTIAL_SELL", "LVL1_PROFIT", partial_qty(exit_rules, pos), mp,
                      new_peak(pos, mp))
        ELSE IF trail_armed(pos, mp) /\ trail_hit(exit_rules, pos, mp)
        THEN Decision("FULL_SELL", "TRAILING_STOP", full_qty, mp, new_peak(pos, mp))
        ELSE IF time_hit(exit_rules, pos, t)
        THEN Decision("FULL_SELL", "TIME_LIMIT", full_qty, mp, new_peak(pos, mp))
        ELSE Decision("HOLD", HoldReason, 0, 0, new_peak(pos, mp))

\* Faulty variant of decide: a sale is priced at the peak instead of the
\* market price.
decide_sells_at_peak(exit_rules, pos, mp, t) ==
    IF hard_stop_hit(exit_rules, pos, mp)
    THEN Decision("FULL_SELL", "HARD_STOP", Abs(pos.quantity), new_peak(pos, mp),
                  new_peak(pos, mp))
    ELSE IF lvl1_hit(exit_rules, pos, mp) /\ partial_qty(exit_rules, pos) > 0
    THEN Decision("PARTIAL_SELL", "LVL1_PROFIT", partial_qty(exit_rules, pos),
                  new_peak(pos, mp), new_peak(pos, mp))
    ELSE IF trail_armed(pos, mp) /\ trail_hit(exit_rules, pos, mp)
    THEN Decision("FULL_SELL", "TRAILING_STOP", Abs(pos.quantity), new_peak(pos, mp),
                  new_peak(pos, mp))
    ELSE IF time_hit(exit_rules, pos, t)
    THEN Decision("FULL_SELL", "TIME_LIMIT", Abs(pos.quantity), new_peak(pos, mp),
                  new_peak(pos, mp))
    ELSE Decision("HOLD", HoldReason, 0, 0, new_peak(pos, mp))

\* the rule cascade, once exit_rules is at hand
decide(exit_rules, pos, mp, t) ==
    IF hard_stop_hit(exit_rules, pos, mp)
    THEN Decision("FULL_SELL", "HARD_STOP", Abs(pos.quantity), mp, new_peak(pos, mp))
    ELSE IF lvl1_hit(exit_rules, pos, mp) /\ partial_qty(exit_rules, pos) > 0
    THEN Decision("PARTIAL_SELL", "LVL1_PROFIT", partial_qty(exit_rules, pos), mp,
                  new_peak(pos, mp))
    ELSE IF trail_armed(pos, mp) /\ trail_hit(exit_rules, pos, mp)
    THEN Decision("FULL_SELL", "TRAILING_STOP", Abs(pos.quantity), mp, new_peak(pos, mp))
    ELSE IF time_hit(exit_rules, pos, t)
    THEN Decision("FULL_SELL", "TIME_LIMIT", Abs(pos.quantity), mp, new_peak(pos, mp))
    ELSE Decision("HOLD", HoldReason, 0, 0, new_peak(pos, mp))

\* manage_exit(position, market_price, now) on a manager holding rules r
manage_exit(r, pos, mp, t) ==
    IF ~HasExit(r) THEN Raise("AttributeError")          \* self.rules.exit
    ELSE IF pos.entry_price = 0 THEN Raise("ZeroDivisionError")
    ELSE decide(r.exit, pos, mp, t)

----------------------------------------------------------------------------
(* The caller's cycle on one position *)

\* Faulty variant of ManageExit: the call writes the new peak and the
\* partial-sale flag into the Position it was given.
ManageExit_writes_position(mp, t) ==
    /\ pc = "open" /\ calls < MaxCalls /\ t >= now
    /\ market_price' = mp /\ now' = t
    /\ result' = manage_exit(rules, position, mp, t)
    /\ pc' = "decided" /\ calls' = calls + 1
    /\ lvl1_count' = IF result'.reason = "LVL1_PROFIT" THEN lvl1_count + 1 ELSE lvl1_count
    /\ seen_above' = (seen_above \/ mp > position.entry_price)
    /\ position' = IF Returned(result')
                   THEN [position EXCEPT !.current_price = result'.new_peak,
                            !.partial_sold = IF result'.action = "PARTIAL_SELL" THEN TRUE ELSE @]
                   ELSE position
    /\ UNCHANGED <<rules, prev_peak, entry_qty, sold, parvars, compvars>>

\* One tick: the caller reads the price and the clock and calls manage_exit.
\* The call changes neither the position nor the rules.
ManageExit(mp, t) ==
    /\ pc = "open"
    /\ calls < MaxCalls
    /\ t >= now
    /\ market_price' = mp
    /\ now' = t
    /\ result' = manage_exit(rules, position, mp, t)
    /\ pc' = "decided"
    /\ calls' = calls + 1
    /\ lvl1_count' = IF result'.reason = "LVL1_PROFIT" THEN lvl1_count + 1 ELSE lvl1_count
    /\ seen_above' = (seen_above \/ mp > position.entry_price)
    /\ UNCHANGED <<rules, position, prev_peak, entry_qty, sold, parvars, compvars>>

\* The caller applies the decision to the Position before the next call:
\* the peak is written back, a partial sale sets partial_sold and reduces
\* the quantity, a full sale zeroes it and closes the position.
Commit ==
    /\ pc = "decided"
    /\ IF Returned(result)
       THEN /\ position' =
                 [position EXCEPT
                    !.current_price = result.new_peak,
                    !.partial_sold = IF result.action = "PARTIAL_SELL" THEN TRUE ELSE @,
                    !.quantity = IF result.action = "HOLD" THEN @ ELSE @ - result.sell_qty]
            /\ prev_peak' = result.new_peak
            /\ sold' = IF result.action = "HOLD" THEN sold ELSE sold + result.sell_qty
            /\ pc' = IF result.action = "FULL_SELL" THEN "closed" ELSE "open"
       ELSE /\ UNCHANGED <<position, prev_peak, sold>>
            /\ pc' = "open"
    /\ UNCHANGED <<rules, market_price, now, result, calls, lvl1_count, seen_above,
                   entry_qty, parvars, compvars>>

\* order ids: "DRYRUN_{signal_id}", "DRYRUN_SELL_{order_id}_{timestamp}",
\* "SEMI_{signal_id}_REJECTED", "FAILED_{signal_id}", "FAILED_SELL_{order_id}"
\* and the ids the broker gives ("ALPACA", numbered in the order of acceptance)
OrderId(kind, ref, ts) == [kind |-> kind, ref |-> ref, ts |-> ts]

OrderRecord(order_id, signal_id, side, quantity, status) ==
    [order_id |-> order_id, signal_id |-> signal_id, side |-> side,
     quantity |-> quantity, status |-> status]

\* return values that are not an order: nothing called yet, None, an exception
NoOrder == OrderRecord(OrderId("NO_CALL", 0, 0), 0, "none", 0, "NO_CALL")
None == OrderRecord(OrderId("None", 0, 0), 0, "none", 0, "None")
Raised == OrderRecord(OrderId("RAISED", 0, 0), 0, "none", 0, "RAISED")

\* no other evaluation context exists
OneCaller ==
    /\ positions = <<>>
    /\ ctx = <<>>
    /\ log = <<>>

\* no call is running in steps and no reload has happened
NoReload ==
    /\ local_exit_rules = EmptyDict
    /\ rules_at_start = RulesConfig
    /\ reloads = 0

\* the positions table is empty
NoStorage ==
    /\ db_positions = <<>>
    /\ loaded = <<>>
    /\ saved = <<>>

\* RuleEngine.evaluate has not been called
NoRuleEngine ==
    /\ rules_yaml = EmptyDict
    /\ event = EmptyDict
    /\ market = EmptyDict
    /\ pre_signal = EmptyDict

\* RiskGuard.approve_signal has not been called
NoRiskGuard ==
    /\ portfolio = EmptyDict
    /\ approved_signal = EmptyDict

\* the position is not followed past its hold time
NoLateCalls ==
    /\ late_calls = 0

\* no BrokerExecutor has been built
NoBroker ==
    /\ run_mode = "DRYRUN"
    /\ client = "None"
    /\ client_called = FALSE
    /\ broker_orders = <<>>
    /\ orders = {}
    /\ signal = EmptyDict
    /\ exec_return = NoOrder
    /\ execs = 0
    /\ last_op = "none"

\* no event has been processed
NoTrader ==
    /\ processed = 0

\* the other components of the pipeline are at rest
NoComponents ==
    /\ NoReload
    /\ NoStorage
    /\ NoRuleEngine
    /\ NoRiskGuard
    /\ NoLateCalls
    /\ NoBroker
    /\ NoTrader

InitCommon ==
    /\ NoComponents
    /\ rules \in {RulesConfig} \cup RuleTables
    /\ market_price = 0
    /\ now = EntryTime
    /\ result = NoResult
    /\ pc = "open"
    /\ calls = 0
    /\ lvl1_count = 0
    /\ seen_above = FALSE
    /\ prev_peak = 0
    /\ sold = 0

\* A position followed from its creation.
Init ==
    /\ InitCommon
    /\ position \in FreshPositions
    /\ entry_qty = position.quantity
    /\ OneCaller

Next ==
    \/ \E mp \in PricesOf(position.entry_price), t \in Times : ManageExit(mp, t)
    \/ Commit

Spec == Init /\ [][Next]_vars

\* Any position handed to manage_exit, one call.
InitCall ==
    /\ InitCommon
    /\ position \in Positions
    /\ entry_qty = position.quantity
    /\ OneCaller

NextCall ==
    \E mp \in PricesOf(position.entry_price), t \in Times :
        calls = 0 /\ ManageExit(mp, t)

SpecCall == InitCall /\ [][NextCall]_vars

\* One call on any argument values, the malformed ones included: the
\* signature of manage_exit constrains neither the sign of a price nor the
\* quantity.
AnyEntryPrices == {-100, 0, 100}
AnyQuantities == {0, 1, 10}
AnyPrices == {-90, 0, 90, 96, 100, 108, 120}

AnyPositions ==
    [entry_price : AnyEntryPrices, quantity : AnyQuantities, entry_time : {EntryTime},
     current_price : {0, 100, 120}, partial_sold : BOOLEAN]

InitAny ==
    /\ InitCommon
    /\ position \in AnyPositions
    /\ entry_qty = position.quantity
    /\ OneCaller

NextAny ==
    \E mp \in AnyPrices, t \in Times :
        calls = 0 /\ ManageExit(mp, t)

SpecAny == InitAny /\ [][NextAny]_vars

----------------------------------------------------------------------------
(* Several evaluation contexts on one TradeManager.  A context calls       *)
(* manage_exit on a Position and holds the decision until it commits it.   *)
(* manage_exit keeps everything it computes in locals; the manager's only  *)
(* attribute is rules.                                                     *)

MaxEvals == 2

PosIds == {1, 2}
Ctxs == {1, 2}
ParQuantities == {2, 10}
ParPrices == {96, 108, 120}
ParTimes == {EntryTime, EntryTime + 60}

ParPositions ==
    {p \in FreshPositions :
        p.entry_price = 100 /\ p.current_price = 100 /\ p.quantity \in ParQuantities}

NoPosition ==
    [entry_price |-> 0, quantity |-> 0, entry_time |-> 0, current_price |-> 0,
     partial_sold |-> FALSE]

IdleCtx ==
    [pc |-> "idle", target |-> 0, read |-> NoPosition, mp |-> 0, t |-> 0,
     result |-> NoResult]

\* the Position after the caller has applied decision d to it (as in Commit)
Committed(pos, d) ==
    IF Returned(d)
    THEN [pos EXCEPT
            !.current_price = d.new_peak,
            !.partial_sold = IF d.action = "PARTIAL_SELL" THEN TRUE ELSE @,
            !.quantity = IF d.action = "HOLD" THEN @ ELSE @ - d.sell_qty]
    ELSE pos

\* some context holds an uncommitted decision for position i
InFlight(i) == \E c \in Ctxs : ctx[c].pc = "decided" /\ ctx[c].target = i

\* the time of the latest call made on position i: the clock does not go back
LastTime(i) ==
    IF log[i].inputs = <<>> THEN EntryTime ELSE log[i].inputs[Len(log[i].inputs)][2]

\* the highest peak stored on any position
SharedPeak ==
    LET peaks == {positions[i].current_price : i \in PosIds}
    IN  CHOOSE m \in peaks : \A x \in peaks : m >= x

\* Faulty variant of Evaluate: the peak is kept in one place for all positions.
Evaluate_shared_peak(c, i, mp, t) ==
    /\ ctx[c].pc = "idle"
    /\ ~log[i].closed
    /\ Len(log[i].inputs) < MaxEvals
    /\ t >= LastTime(i)
    /\ LET d == manage_exit(rules, [positions[i] EXCEPT !.current_price = SharedPeak],
                            mp, t)
       IN  /\ ctx' = [ctx EXCEPT ![c] = [pc |-> "decided", target |-> i,
                                         read |-> positions[i], mp |-> mp, t |-> t,
                                         result |-> d]]
           /\ log' = [log EXCEPT ![i].inputs = Append(@, <<mp, t>>),
                                 ![i].decisions = Append(@, d)]
    /\ UNCHANGED <<rules, onevars, positions, compvars>>

\* Faulty variant of Evaluate: a level-1 decision in flight for the same
\* position is noticed and the partial sale is not decided a second time.
Evaluate_sees_in_flight(c, i, mp, t) ==
    /\ ctx[c].pc = "idle"
    /\ ~log[i].closed
    /\ Len(log[i].inputs) < MaxEvals
    /\ t >= LastTime(i)
    /\ LET taken == \E o \in Ctxs : /\ ctx[o].pc = "decided" /\ ctx[o].target = i
                                    /\ ctx[o].result.reason = "LVL1_PROFIT"
           d == manage_exit(rules,
                            [positions[i] EXCEPT !.partial_sold = @ \/ taken], mp, t)
       IN  /\ ctx' = [ctx EXCEPT ![c] = [pc |-> "decided", target |-> i,
                                         read |-> positions[i], mp |-> mp, t |-> t,
                                         result |-> d]]
           /\ log' = [log EXCEPT ![i].inputs = Append(@, <<mp, t>>),
                                 ![i].decisions = Append(@, d)]
    /\ UNCHANGED <<rules, onevars, positions, compvars>>

\* Context c calls manage_exit(positions[i], mp, t) and holds the decision.
Evaluate(c, i, mp, t) ==
    /\ ctx[c].pc = "idle"
    /\ ~log[i].closed
    /\ Len(log[i].inputs) < MaxEvals
    /\ t >= LastTime(i)
    /\ LET d == manage_exit(rules, positions[i], mp, t)
       IN  /\ ctx' = [ctx EXCEPT ![c] = [pc |-> "decided", target |-> i,
                                         read |-> positions[i], mp |-> mp, t |-> t,
                                         result |-> d]]
           /\ log' = [log EXCEPT ![i].inputs = Append(@, <<mp, t>>),
                                 ![i].decisions = Append(@, d)]
    /\ UNCHANGED <<rules, onevars, positions, compvars>>

\* Context c applies the decision it holds to the Position it was made for.
CommitCtx(c) ==
    /\ ctx[c].pc = "decided"
    /\ LET i == ctx[c].target
           d == ctx[c].result
       IN  /\ positions' = [positions EXCEPT ![i] = Committed(@, d)]
           /\ log' = [log EXCEPT ![i].closed = @ \/ d.action = "FULL_SELL"]
    /\ ctx' = [ctx EXCEPT ![c] = IdleCtx]
    /\ UNCHANGED <<rules, onevars, compvars>>

InitPar ==
    /\ positions \in [PosIds -> ParPositions]
    /\ ctx = [c \in Ctxs |-> IdleCtx]
    /\ log = [i \in PosIds |->
                 [start |-> positions[i], inputs |-> <<>>, decisions |-> <<>>,
                  closed |-> FALSE]]
    /\ InitCommon
    /\ position = positions[1]
    /\ entry_qty = position.quantity

\* Each position has at most one evaluation in flight; distinct positions
\* interleave freely.
NextPar ==
    \/ \E c \in Ctxs, i \in PosIds, mp \in ParPrices, t \in ParTimes :
          ~InFlight(i) /\ Evaluate(c, i, mp, t)
    \/ \E c \in Ctxs : CommitCtx(c)

SpecPar == InitPar /\ [][NextPar]_vars

\* No discipline: both contexts may evaluate the same position at once.
RacedPosIds == {1}

NextRace ==
    \/ \E c \in Ctxs, i \in RacedPosIds, mp \in ParPrices, t \in ParTimes :
          Evaluate(c, i, mp, t)
    \/ \E c \in Ctxs : CommitCtx(c)

SpecRace == InitPar /\ [][NextRace]_vars

----------------------------------------------------------------------------
(* A call taken in its two steps, with RulesConfig.reload() in between:    *)
(* reload() replaces the mapping the RulesConfig object holds, and the     *)
(* TradeManager holds that same object.                                    *)

MaxReloads == 2

\* manage_exit up to line 49: now is fixed and exit_rules = self.rules.exit
\* is read, once
StartCall(mp, t) ==
    /\ pc = "open"
    /\ calls < MaxCalls
    /\ t >= now
    /\ market_price' = mp
    /\ now' = t
    /\ calls' = calls + 1
    /\ rules_at_start' = rules
    /\ IF HasExit(rules)
       THEN /\ local_exit_rules' = rules.exit
            /\ pc' = "started"
            /\ UNCHANGED result
       ELSE /\ result' = Raise("AttributeError")
            /\ pc' = "decided"
            /\ UNCHANGED local_exit_rules
    /\ UNCHANGED <<rules, position, lvl1_count, seen_above, prev_peak, entry_qty, sold,
                   reloads, beside_reload>>

\* Faulty variant of FinishCall: the thresholds are looked up in self.rules
\* again when the rules are evaluated.
FinishCall_reads_again ==
    /\ pc = "started"
    /\ result' = manage_exit(rules, position, market_price, now)
    /\ pc' = "decided"
    /\ lvl1_count' = IF result'.reason = "LVL1_PROFIT" THEN lvl1_count + 1 ELSE lvl1_count
    /\ seen_above' = (seen_above \/ market_price > position.entry_price)
    /\ UNCHANGED <<rules, position, market_price, now, calls, prev_peak, entry_qty, sold,
                   reloadvars, beside_reload>>

\* manage_exit from line 52 on: the cascade, on the exit_rules read at line 49
FinishCall ==
    /\ pc = "started"
    /\ result' = IF position.entry_price = 0
                 THEN Raise("ZeroDivisionError")
                 ELSE decide(local_exit_rules, position, market_price, now)
    /\ pc' = "decided"
    /\ lvl1_count' = IF result'.reason = "LVL1_PROFIT" THEN lvl1_count + 1 ELSE lvl1_count
    /\ seen_above' = (seen_above \/ market_price > position.entry_price)
    /\ UNCHANGED <<rules, position, market_price, now, calls, prev_peak, entry_qty, sold,
                   reloadvars, beside_reload>>

\* RulesConfig.reload(): the file is read again and has a changed exit section
Reload(exit_section) ==
    /\ reloads < MaxReloads
    /\ exit_section # rules.exit
    /\ rules' = [rules EXCEPT !.exit = exit_section]
    /\ reloads' = reloads + 1
    /\ UNCHANGED <<onevars, local_exit_rules, rules_at_start, beside_reload>>

NextReload ==
    \/ \E mp \in PricesOf(position.entry_price), t \in Times : StartCall(mp, t)
    \/ FinishCall
    \/ \E exit_section \in ExitSections : Reload(exit_section)
    \/ Commit

SpecReload == Init /\ [][NextReload]_vars

----------------------------------------------------------------------------
(* Storage: the positions table, save_position and get_open_positions.     *)
(* The table has the columns ticker, entry_price, quantity, entry_time,    *)
(* exit_time, exit_price, event_id, order_id, stop_loss, take_profit,      *)
(* realized_pnl, status; the model keeps those a Position of this model    *)
(* has a field for, and status.                                            *)

MaxSaves == 2

\* INSERT INTO positions (ticker, entry_price, quantity, entry_time, event_id,
\* order_id, stop_loss, take_profit, status) VALUES (..., 'open')
PositionRow(pos) ==
    [entry_price |-> pos.entry_price, quantity |-> pos.quantity,
     entry_time |-> pos.entry_time, status |-> "open"]

\* Position(ticker=row[0], entry_price=row[1], quantity=row[2], entry_time=...,
\* event_id=..., order_id=..., stop_loss=..., take_profit=...): current_price
\* and partial_sold are not passed and take their defaults
PositionOfRow(row) ==
    [entry_price |-> row.entry_price, quantity |-> row.quantity,
     entry_time |-> row.entry_time, current_price |-> 0, partial_sold |-> FALSE]

\* Storage.save_position(position)
SavePosition ==
    /\ pc = "open"
    /\ Len(db_positions) < MaxSaves
    /\ db_positions' = Append(db_positions, PositionRow(position))
    /\ saved' = Append(saved, position)
    /\ UNCHANGED <<rules, onevars, loaded, beside_store>>

\* Storage.get_open_positions(): SELECT ... FROM positions WHERE status = 'open'
GetOpenPositions ==
    /\ db_positions # <<>>
    /\ loaded' = [k \in DOMAIN SelectSeq(db_positions, LAMBDA row : row.status = "open")
                     |-> PositionOfRow(SelectSeq(db_positions,
                                                 LAMBDA row : row.status = "open")[k])]
    /\ UNCHANGED <<rules, onevars, db_positions, saved, beside_store>>

\* The caller goes on with a Position that get_open_positions returned.
Resume(k) ==
    /\ pc = "open"
    /\ k \in DOMAIN loaded
    /\ position' = loaded[k]
    /\ UNCHANGED <<rules, market_price, now, result, pc, calls, lvl1_count, seen_above,
                   prev_peak, entry_qty, sold, storevars, beside_store>>

NextStore ==
    \/ \E mp \in PricesOf(position.entry_price), t \in Times : ManageExit(mp, t)
    \/ Commit
    \/ SavePosition
    \/ GetOpenPositions
    \/ \E k \in 1..MaxSaves : Resume(k)

\* one position, followed from its creation
InitStore ==
    /\ Init
    /\ position.entry_price = 100
    /\ position.quantity \in {2, 10}
    /\ rules \in {RulesConfig, RuleTable(EmptyDict)}

SpecStore == InitStore /\ [][NextStore]_vars

----------------------------------------------------------------------------
(* RuleEngine.evaluate (src/app/rule_engine.py)                            *)

\* the skip and entry sections of rules.yaml: nothing configured (every
\* default applies), and lists and thresholds configured
DefaultYaml == [skip |-> EmptyDict, entry |-> EmptyDict]

CustomSkip ==
    [k \in {"spike01_gt_pct", "disallow_session", "disallow_categories",
            "min_reliability"} |->
        CASE k = "spike01_gt_pct" -> 30
          [] k = "disallow_session" -> {"pre"}
          [] k = "disallow_categories" -> {"rumor"}
          [] k = "min_reliability" -> 60]

CustomEntry ==
    [k \in {"min_sentiment", "allowed_categories"} |->
        CASE k = "min_sentiment" -> 69
          [] k = "allowed_categories" -> {"earnings", "rumor"}]

CustomYaml == [skip |-> CustomSkip, entry |-> CustomEntry]

EventCards ==
    [category : {"earnings", "rumor", "fda"}, sentiment : {69, 70},
     reliability : {59, 60, 69, 70}]

MarketStates ==
    [dP_1m : {-51, -50, 30, 31, 50}, session : {"regular", "pre"},
     dP_5m : {9, 10, 40, 41}, vol_ratio_1m : {29, 30}, spread_bp : {50, 51},
     rsi_3 : {75, 76}]

PreSignal(action, window_hint, reasons) ==
    [action |-> action, window_hint |-> window_hint, reasons |-> reasons]

\* _check_skip_conditions: the reason of the first skip condition that
\* holds, <<>> when none does (the function returns False)
check_skip_conditions(skip_rules, ev, mk) ==
    IF Abs(mk.dP_1m) > Get(skip_rules, "spike01_gt_pct", 50)
    THEN <<"Excessive 1m spike">>
    ELSE IF mk.session \in Get(skip_rules, "disallow_session", {})
    THEN <<"Session is disallowed">>
    ELSE IF ev.category \in Get(skip_rules, "disallow_categories", {})
    THEN <<"Category is disallowed">>
    ELSE IF ev.reliability < Get(skip_rules, "min_reliability", 60)
    THEN <<"Low reliability">>
    ELSE <<>>

\* _check_entry_conditions: the reasons of the failed checks, in order;
\* passed is True when there is none
check_entry_conditions(entry_rules, ev, mk) ==
    LET allowed_categories == Get(entry_rules, "allowed_categories", {})
        note(failed, reason) == IF failed THEN <<reason>> ELSE <<>>
    IN  note(ev.sentiment < Get(entry_rules, "min_sentiment", 70), "Sentiment too low")
        \o note(ev.reliability < Get(entry_rules, "min_impact", 70),
                "Impact/reliability too low")
        \o (IF mk.dP_5m < Get(entry_rules, "dp5m_min_pct", 10)
            THEN <<"5m price change too small">>
            ELSE note(mk.dP_5m > Get(entry_rules, "dp5m_max_pct", 40),
                      "5m price change too large"))
        \o note(mk.vol_ratio_1m < Get(entry_rules, "min_vol_ratio", 30),
                "Volume ratio too low")
        \o note(mk.spread_bp > Get(entry_rules, "max_spread_bp", 50), "Spread too wide")
        \o note(mk.rsi_3 > Get(entry_rules, "max_rsi3", 75), "RSI too high")
        \o note(allowed_categories # {} /\ ev.category \notin allowed_categories,
                "Category not in allowlist")

\* the reasons of a passed entry check, after reasons.clear()
EntryReasons ==
    <<"Strong positive sentiment", "Good price momentum", "High volume", "Category">>

\* Faulty variant of evaluate: the entry conditions are looked at first.
evaluate_entry_first(yaml, ev, mk) ==
    LET skip_reasons == check_skip_conditions(yaml.skip, ev, mk)
        entry_reasons == check_entry_conditions(yaml.entry, ev, mk)
    IN  IF entry_reasons = <<>>
        THEN PreSignal("ENTRY", "[1,5]m", EntryReasons)
        ELSE IF skip_reasons # <<>>
        THEN PreSignal("SKIP", "N/A", skip_reasons)
        ELSE PreSignal("SKIP", "N/A", entry_reasons \o <<"Did not meet entry criteria">>)

\* RuleEngine.evaluate(event, market)
evaluate(yaml, ev, mk) ==
    LET skip_reasons == check_skip_conditions(yaml.skip, ev, mk)
        entry_reasons == check_entry_conditions(yaml.entry, ev, mk)
    IN  IF skip_reasons # <<>>
        THEN PreSignal("SKIP", "N/A", skip_reasons)
        ELSE IF entry_reasons = <<>>
        THEN PreSignal("ENTRY", "[1,5]m", EntryReasons)
        ELSE PreSignal("SKIP", "N/A", entry_reasons \o <<"Did not meet entry criteria">>)

NoPreSignal == PreSignal("NO_CALL", "N/A", <<>>)

RuleEngineEvaluate ==
    /\ pre_signal = NoPreSignal
    /\ pre_signal' = evaluate(rules_yaml, event, market)
    /\ UNCHANGED <<rules_yaml, event, market>>

\* the other parts of the model at rest, for the specifications of the
\* entry pipeline
NoExitEngine ==
    /\ rules = RulesConfig
    /\ position = NoPosition
    /\ market_price = 0
    /\ now = EntryTime
    /\ result = NoResult
    /\ pc = "open"
    /\ calls = 0
    /\ lvl1_count = 0
    /\ seen_above = FALSE
    /\ prev_peak = 0
    /\ entry_qty = 0
    /\ sold = 0
    /\ OneCaller
    /\ NoLateCalls
    /\ NoTrader

InitRule ==
    /\ NoExitEngine
    /\ NoReload
    /\ NoStorage
    /\ rules_yaml \in {DefaultYaml, CustomYaml}
    /\ event \in EventCards
    /\ market \in MarketStates
    /\ pre_signal = NoPreSignal
    /\ NoRiskGuard
    /\ NoBroker

NextRule == RuleEngineEvaluate /\ UNCHANGED beside_rule

SpecRule == InitRule /\ [][NextRule]_vars

----------------------------------------------------------------------------
(* RiskGuard.approve_signal (src/app/risk_guard.py)                        *)

DefaultRiskYaml == [risk |-> EmptyDict, execution |-> EmptyDict]

CustomRisk ==
    [k \in {"max_concurrent_positions", "min_position_size_usd",
            "max_position_size_usd", "max_sector_exposure_pct"} |->
        CASE k = "max_concurrent_positions" -> 2
          [] k = "min_position_size_usd" -> 200
          [] k = "max_position_size_usd" -> 5000
          [] k = "max_sector_exposure_pct" -> 4000]

CustomRiskYaml == [risk |-> CustomRisk, execution |-> EmptyDict]

\* MarketState fields approve_signal reads (one ticker): mid, dP_5m
RiskMarkets == [mid : {80, 100, 170, 20000}, dP_5m : {-40, 10, 20}]

\* PortfolioState fields approve_signal reads; sector_exposure is the
\* exposure of the ticker's sector
Portfolios ==
    [equity : {1000, 2500, 100000}, daily_pnl_pct : {-201, -200, 0},
     positions_count : {0, 2, 3}, sector_exposure : {0, 1500, 1501}]

ApprovedSignal(approved, size_final_usd, hard_stop_bp, take_profit_bp, max_slippage_bp,
               notes, entry_price_target, shares) ==
    [approved |-> approved, size_final_usd |-> size_final_usd,
     hard_stop_bp |-> hard_stop_bp, take_profit_bp |-> take_profit_bp,
     max_slippage_bp |-> max_slippage_bp, notes |-> notes,
     entry_price_target |-> entry_price_target, shares |-> shares]

\* ApprovedSignal(approved=False, size_final_usd=0.0, hard_stop_bp=0, ...):
\* entry_price_target and shares are not passed (0 stands for unset)
Rejected(notes) == ApprovedSignal(FALSE, 0, 0, 0, 0, notes, 0, 0)

\* _check_portfolio_limits: the note of the limit that is hit, <<>> if none
check_portfolio_limits(risk_rules, pf) ==
    IF pf.daily_pnl_pct < -Get(risk_rules, "max_daily_loss_pct", 200)
    THEN <<"Daily loss limit exceeded">>
    ELSE IF pf.positions_count >= Get(risk_rules, "max_concurrent_positions", 3)
    THEN <<"Max positions reached">>
    ELSE <<>>

\* _check_sector_limit
check_sector_limit(risk_rules, pf) ==
    IF pf.sector_exposure + Get(risk_rules, "max_position_size_pct", 1500)
           > Get(risk_rules, "max_sector_exposure_pct", 3000)
    THEN <<"Sector exposure would exceed limit">>
    ELSE <<>>

\* hard_stop_bp = max(min_stop_bp, int(estimated_vol_bp * 1.5)),
\* estimated_vol_bp = int(abs(market.dP_5m) * 100)
hard_stop_bp_of(risk_rules, mk) ==
    Max(Get(risk_rules, "min_stop_bp", 150), Trunc(Abs(mk.dP_5m) * 10 * 3, 2))

\* round_to_tick(market.mid * (1 + limit_offset_bp / 10000)), in cents
entry_price_target_of(exec_rules, mk) ==
    LET num == mk.mid * (10000 + Get(exec_rules, "limit_offset_bp", 10))
    IN  (2 * num + 100) \div 200

RECURSIVE GCD(_, _)
GCD(a, b) == IF b = 0 THEN a ELSE GCD(b, a % b)

\* the rational num / den (num >= 0, den > 0) in lowest terms, as <<num, den>>
Rat(num, den) == <<num \div GCD(num, den), den \div GCD(num, den)>>

\* the smaller of two rationals given as <<num, den>>, den > 0
RatMin(a, b) == IF a[1] * b[2] <= b[1] * a[2] THEN a ELSE b

\* size_usd before the share count is taken: risk_amount / stop_pct capped
\* by max_position_usd and max_limit_usd, as <<num, den>>
size_usd_of(risk_rules, mk, pf) ==
    LET risk_size == IF hard_stop_bp_of(risk_rules, mk) > 0
                     THEN Rat(pf.equity * Get(risk_rules, "per_trade_risk_pct", 40),
                              hard_stop_bp_of(risk_rules, mk))
                     ELSE <<0, 1>>
        max_position_usd ==
            Rat(pf.equity * Get(risk_rules, "max_position_size_pct", 1500), 10000)
        max_limit_usd == <<Get(risk_rules, "max_position_size_usd", 15000), 1>>
    IN  RatMin(RatMin(risk_size, max_position_usd), max_limit_usd)

\* Faulty variant of approve_signal: the portfolio limits are not consulted.
approve_signal_no_limits(yaml, sig, mk, pf) ==
    LET size_usd == size_usd_of(yaml.risk, mk, pf)
        shares == size_usd[1] \div (size_usd[2] * mk.mid)
    IN  IF sig.action = "SKIP"
        THEN Rejected(<<"Signal was SKIP">>)
        ELSE IF size_usd[1] < Get(yaml.risk, "min_position_size_usd", 100) * size_usd[2]
        THEN Rejected(<<"Position size below minimum">>)
        ELSE IF shares = 0
        THEN Rejected(<<"Calculated 0 shares">>)
        ELSE ApprovedSignal(TRUE, shares * mk.mid, hard_stop_bp_of(yaml.risk, mk),
                            Get(yaml.risk, "trail_take_profit_bp", 250),
                            Get(yaml.execution, "max_slippage_bp", 40),
                            <<"Risk per trade", "Position size", "Stop", "Take profit">>,
                            entry_price_target_of(yaml.execution, mk), shares)

\* RiskGuard.approve_signal(pre_signal, market, portfolio)
approve_signal(yaml, sig, mk, pf) ==
    LET size_usd == size_usd_of(yaml.risk, mk, pf)
        shares == size_usd[1] \div (size_usd[2] * mk.mid)
    IN  IF sig.action = "SKIP"
        THEN Rejected(<<"Signal was SKIP">>)
        ELSE IF check_portfolio_limits(yaml.risk, pf) # <<>>
        THEN Rejected(check_portfolio_limits(yaml.risk, pf))
        ELSE IF check_sector_limit(yaml.risk, pf) # <<>>
        THEN Rejected(check_sector_limit(yaml.risk, pf))
        ELSE IF size_usd[1] < Get(yaml.risk, "min_position_size_usd", 100) * size_usd[2]
        THEN Rejected(<<"Position size below minimum">>)
        ELSE IF shares = 0
        THEN Rejected(<<"Calculated 0 shares">>)
        ELSE ApprovedSignal(TRUE, shares * mk.mid, hard_stop_bp_of(yaml.risk, mk),
                            Get(yaml.risk, "trail_take_profit_bp", 250),
                            Get(yaml.execution, "max_slippage_bp", 40),
                            <<"Risk per trade", "Position size", "Stop", "Take profit">>,
                            entry_price_target_of(yaml.execution, mk), shares)

NoApproval == ApprovedSignal(FALSE, 0, 0, 0, 0, <<"NO_CALL">>, 0, 0)

ApproveSignal ==
    /\ approved_signal = NoApproval
    /\ approved_signal' = approve_signal(rules_yaml, pre_signal, market, portfolio)
    /\ UNCHANGED <<rules_yaml, event, market, pre_signal, portfolio>>

InitRisk ==
    /\ NoExitEngine
    /\ NoReload
    /\ NoStorage
    /\ rules_yaml \in {DefaultRiskYaml, CustomRiskYaml}
    /\ event = EmptyDict
    /\ market \in RiskMarkets
    /\ pre_signal \in {PreSignal("ENTRY", "[1,5]m", EntryReasons),
                       PreSignal("SKIP", "N/A", <<"Did not meet entry criteria">>)}
    /\ portfolio \in Portfolios
    /\ approved_signal = NoApproval
    /\ NoBroker

NextRisk == ApproveSignal /\ UNCHANGED beside_risk

SpecRisk == InitRisk /\ [][NextRisk]_vars

----------------------------------------------------------------------------
(* BrokerExecutor (src/app/broker_exec.py).  What the broker, the database *)
(* and the user do during one call is the call's fate: whether a           *)
(* submission is accepted, whether a save succeeds, how the monitored      *)
(* order ends.                                                             *)

MaxExecs == 2

RunModes == {"DRYRUN", "SEMI_AUTO", "FULL_AUTO"}

\* _monitor_order: the order is filled and recorded; filled, but a save
\* fails; cancelled, rejected or expired; timed out and cancelled; timed out
\* and the cancel fails; get_order_by_id raises
MonitorFates == {"filled", "filled_order_unsaved", "filled_position_unsaved",
                 "cancelled", "timeout", "timeout_cancel_failed", "error"}

\* a fate says something only about the steps the call can come to: the
\* monitoring after a first submission that was accepted and saved, the
\* retry after one that failed, the FAILED record after a failed retry
Fates ==
    {f \in [user_approves : BOOLEAN, submit : BOOLEAN, save : BOOLEAN,
            monitor : MonitorFates, retry_submit : BOOLEAN, retry_save : BOOLEAN,
            failed_save : BOOLEAN] :
        /\ (f.submit /\ f.save) =>
               (~f.retry_submit /\ ~f.retry_save /\ ~f.failed_save)
        /\ ~(f.submit /\ f.save) => f.monitor = "error"
        /\ ~f.retry_submit => ~f.retry_save
        /\ (f.retry_submit /\ f.retry_save) => ~f.failed_save}

Tickers == {"AAPL", "MSFT", "TSLA", "XYZ"}

\* BrokerExecutor.__init__: the client is built in every mode but DRYRUN
client_of(mode) == IF mode # "DRYRUN" THEN "TradingClient" ELSE "None"

\* the broker account and the database, as one value
BrokerState ==
    [broker_orders |-> broker_orders, orders |-> orders,
     db_positions |-> db_positions, client_called |-> client_called,
     ret |-> NoOrder]

\* Storage.save_order: INSERT OR REPLACE INTO orders
save_order(st, order) ==
    [st EXCEPT !.orders = {o \in @ : o.order_id # order.order_id} \cup {order}]

\* self.client.submit_order(order_request), accepted by the broker
submit_order(st, side, signal_id, quantity) ==
    [st EXCEPT !.broker_orders = Append(@, [side |-> side, signal_id |-> signal_id,
                                            quantity |-> quantity]),
               !.client_called = TRUE]

\* a call of a client method that raises; on a client that is None the
\* attribute lookup raises and nothing is called
failed_call(st, cl) == [st EXCEPT !.client_called = @ \/ cl # "None"]

\* the id of the order the broker accepts next
next_alpaca_id(st) == OrderId("ALPACA", Len(st.broker_orders) + 1, 0)

Return(st, order) == [st EXCEPT !.ret = order]

\* the Position _monitor_order creates for a filled order, as its row: the
\* fill is at mid = size_final_usd / shares, below the limit price
filled_position_row(sig, tk) ==
    PositionRow([entry_price |-> sig.size_final_usd \div sig.shares,
                 quantity |-> sig.shares, entry_time |-> EntryTime])
        @@ [ticker |-> tk]

\* _monitor_order(order, signal): every exception is caught inside.  The
\* status is written into the order object before the object is saved, and
\* the object is what _place_limit_order returns.
monitor_order(st, order, sig, tk, fate) ==
    LET filled == [order EXCEPT !.status = "FILLED"]
        cancelled == [order EXCEPT !.status = "CANCELLED"]
    IN  CASE fate.monitor = "filled" ->
                 Return([save_order(st, filled)
                            EXCEPT !.client_called = TRUE,
                                   !.db_positions = Append(@, filled_position_row(sig, tk))],
                        filled)
          [] fate.monitor = "filled_position_unsaved" ->
                 Return([save_order(st, filled) EXCEPT !.client_called = TRUE], filled)
          [] fate.monitor = "filled_order_unsaved" ->
                 Return([st EXCEPT !.client_called = TRUE], filled)
          [] fate.monitor \in {"cancelled", "timeout"} ->
                 Return([save_order(st, cancelled) EXCEPT !.client_called = TRUE],
                        cancelled)
          [] OTHER -> Return([st EXCEPT !.client_called = TRUE], order)

\* the except branch of _place_limit_order: one retry if max_retries > 0,
\* then the FAILED record
place_limit_order_except(st, cl, exec_rules, sig, signal_id, fate) ==
    LET failed == OrderRecord(OrderId("FAILED", signal_id, 0), signal_id, "buy",
                              sig.shares, "FAILED")
        give_up(s) == IF fate.failed_save THEN Return(save_order(s, failed), failed)
                      ELSE Return(s, Raised)
    IN  IF Get(exec_rules, "max_retries", 1) > 0
        THEN IF cl # "None" /\ fate.retry_submit
             THEN LET order == OrderRecord(next_alpaca_id(st), signal_id, "buy",
                                           sig.shares, "SUBMITTED")
                      accepted == submit_order(st, "buy", signal_id, sig.shares)
                  IN  IF fate.retry_save
                      THEN Return(save_order(accepted, order), order)
                      ELSE give_up(accepted)
             ELSE give_up(failed_call(st, cl))
        ELSE give_up(st)

\* _place_limit_order(signal, event_id, signal_id): submit, save, monitor,
\* all in one try block
place_limit_order(st, cl, exec_rules, sig, tk, signal_id, fate) ==
    IF cl # "None" /\ fate.submit
    THEN LET order == OrderRecord(next_alpaca_id(st), signal_id, "buy",
                                  sig.shares, "SUBMITTED")
             accepted == submit_order(st, "buy", signal_id, sig.shares)
         IN  IF fate.save
             THEN monitor_order(save_order(accepted, order), order, sig, tk, fate)
             ELSE place_limit_order_except(accepted, cl, exec_rules, sig, signal_id, fate)
    ELSE place_limit_order_except(failed_call(st, cl), cl, exec_rules, sig, signal_id,
                                  fate)

\* _execute_dryrun: a PENDING buy order is saved, nothing else
execute_dryrun(st, sig, signal_id, fate) ==
    LET order == OrderRecord(OrderId("DRYRUN", signal_id, 0), signal_id, "buy",
                             sig.shares, "PENDING")
    IN  IF fate.save THEN Return(save_order(st, order), order) ELSE Return(st, Raised)

\* _execute_semi_auto: the user rejects (a CANCELLED record) or approves
execute_semi_auto(st, cl, exec_rules, sig, tk, signal_id, fate) ==
    IF ~fate.user_approves
    THEN LET order == OrderRecord(OrderId("SEMI_REJECTED", signal_id, 0), signal_id,
                                  "buy", sig.shares, "CANCELLED")
         IN  IF fate.save THEN Return(save_order(st, order), order)
             ELSE Return(st, Raised)
    ELSE place_limit_order(st, cl, exec_rules, sig, tk, signal_id, fate)

\* Faulty variant of execute: the signal's approval is not looked at.
execute_unapproved_too(st, mode, cl, exec_rules, sig, tk, signal_id, fate) ==
    IF mode = "DRYRUN" THEN execute_dryrun(st, sig, signal_id, fate)
    ELSE IF mode = "SEMI_AUTO"
    THEN execute_semi_auto(st, cl, exec_rules, sig, tk, signal_id, fate)
    ELSE place_limit_order(st, cl, exec_rules, sig, tk, signal_id, fate)

\* execute(signal, event_id, signal_id)
execute(st, mode, cl, exec_rules, sig, tk, signal_id, fate) ==
    IF ~sig.approved THEN Return(st, None)
    ELSE IF mode = "DRYRUN" THEN execute_dryrun(st, sig, signal_id, fate)
    ELSE IF mode = "SEMI_AUTO"
    THEN execute_semi_auto(st, cl, exec_rules, sig, tk, signal_id, fate)
    ELSE place_limit_order(st, cl, exec_rules, sig, tk, signal_id, fate)

\* _close_dryrun: a FILLED sell order is saved, nothing else
close_dryrun(st, ref, quantity, ts, fate) ==
    LET order == OrderRecord(OrderId("DRYRUN_SELL", ref, ts), 0, "sell", quantity,
                             "FILLED")
    IN  IF fate.save THEN Return(save_order(st, order), order) ELSE Return(st, Raised)

\* _place_sell_order: submit and save; on a failure the FAILED record
place_sell_order(st, cl, ref, quantity, fate) ==
    LET failed == OrderRecord(OrderId("FAILED_SELL", ref, 0), 0, "sell", quantity,
                              "FAILED")
        give_up(s) == IF fate.failed_save THEN Return(save_order(s, failed), failed)
                      ELSE Return(s, Raised)
    IN  IF cl # "None" /\ fate.submit
        THEN LET order == OrderRecord(next_alpaca_id(st), 0, "sell", quantity,
                                      "SUBMITTED")
                 accepted == submit_order(st, "sell", 0, quantity)
             IN  IF fate.save THEN Return(save_order(accepted, order), order)
                 ELSE give_up(accepted)
        ELSE give_up(failed_call(st, cl))

\* close_position(position, quantity, price, reason); ref stands for the
\* position's order_id
close_position(st, mode, cl, ref, quantity, ts, fate) ==
    IF mode = "DRYRUN" THEN close_dryrun(st, ref, quantity, ts, fate)
    ELSE place_sell_order(st, cl, ref, quantity, fate)

\* the signals handed to execute: rejected, and approved for 1 and 150 shares
BrokerSignals ==
    {Rejected(<<"Signal was SKIP">>),
     ApprovedSignal(TRUE, 100, 150, 250, 40, <<"Risk per trade">>, 10010, 1),
     ApprovedSignal(TRUE, 15000, 150, 250, 40, <<"Risk per trade">>, 10010, 150)}

Adopt(st) ==
    /\ broker_orders' = st.broker_orders
    /\ orders' = st.orders
    /\ db_positions' = st.db_positions
    /\ client_called' = st.client_called
    /\ exec_return' = st.ret

\* one call of BrokerExecutor.execute
Execute(sig, tk, fate) ==
    /\ execs < MaxExecs
    /\ signal' = sig
    /\ Adopt(execute(BrokerState, run_mode, client, rules_yaml.execution, sig, tk,
                     execs + 1, fate))
    /\ execs' = execs + 1
    /\ last_op' = "execute"
    /\ UNCHANGED <<run_mode, client, rulevars, riskvars, beside_broker>>

\* one call of BrokerExecutor.close_position
ClosePosition(ref, quantity, fate) ==
    /\ execs < MaxExecs
    /\ Adopt(close_position(BrokerState, run_mode, client, ref, quantity, execs + 1,
                            fate))
    /\ execs' = execs + 1
    /\ last_op' = "close_position"
    /\ UNCHANGED <<run_mode, client, signal, rulevars, riskvars, beside_broker>>

\* execution sections of rules.yaml: nothing configured, and no retry
NoRetryYaml ==
    [risk |-> EmptyDict, execution |-> [k \in {"max_retries"} |-> 0]]

InitBroker ==
    /\ NoExitEngine
    /\ NoReload
    /\ NoStorage
    /\ rules_yaml \in {DefaultRiskYaml, NoRetryYaml}
    /\ event = EmptyDict
    /\ market = EmptyDict
    /\ pre_signal = EmptyDict
    /\ NoRiskGuard
    /\ run_mode \in RunModes
    /\ client = client_of(run_mode)
    /\ client_called = FALSE
    /\ broker_orders = <<>>
    /\ orders = {}
    /\ signal = EmptyDict
    /\ exec_return = NoOrder
    /\ execs = 0
    /\ last_op = "none"

NextBroker ==
    \/ \E sig \in BrokerSignals, tk \in {"AAPL", "XYZ"}, fate \in Fates :
           Execute(sig, tk, fate)
    \/ \E ref \in 1..MaxExecs, quantity \in {1, 150}, fate \in Fates :
           ClosePosition(ref, quantity, fate)

SpecBroker == InitBroker /\ [][NextBroker]_vars

----------------------------------------------------------------------------
(* AutoTrader._process_event (src/app/main.py): for each ticker of an      *)
(* event, the market state, the rule engine, the portfolio state, the risk *)
(* guard, the saved signal and, for an approved signal, the broker.        *)

MaxProcessed == 4

\* Settings.initial_equity
initial_equity == 100000

\* SECTOR_MAP.get(ticker, "Unknown")
Sector(tk) ==
    CASE tk \in {"AAPL", "MSFT"} -> "Technology"
      [] tk = "TSLA" -> "Automotive"
      [] OTHER -> "Unknown"

\* the rows get_open_positions() selects
OpenRows(db) == SelectSeq(db, LAMBDA row : row.status = "open")

\* sum of abs(quantity * entry_price) / equity over the open positions of a
\* sector, in ten-thousandths
RECURSIVE exposure_of(_, _)
exposure_of(rows, sector) ==
    IF rows = <<>> THEN 0
    ELSE (IF Sector(Head(rows).ticker) = sector
          THEN (Abs(Head(rows).quantity * Head(rows).entry_price) * 10000)
                   \div initial_equity
          ELSE 0)
         + exposure_of(Tail(rows), sector)

\* Faulty variant of get_portfolio_state: the open positions are not counted.
get_portfolio_state_no_count(db, tk) ==
    [equity |-> initial_equity, daily_pnl_pct |-> 0, positions_count |-> 0,
     sector_exposure |-> exposure_of(OpenRows(db), Sector(tk))]

\* RiskGuard.get_portfolio_state(), with the exposure of the ticker's sector
get_portfolio_state(db, tk) ==
    [equity |-> initial_equity, daily_pnl_pct |-> 0,
     positions_count |-> Len(OpenRows(db)),
     sector_exposure |-> exposure_of(OpenRows(db), Sector(tk))]

\* the four sections of rules.yaml
TraderYamls ==
    {[skip |-> EmptyDict, entry |-> EmptyDict, risk |-> r, execution |-> EmptyDict] :
        r \in {EmptyDict, CustomRisk}}

\* events and market states: one pair that passes every rule, and an event
\* of too low a sentiment
TraderEvents ==
    {[category |-> "earnings", sentiment |-> s, reliability |-> 70] : s \in {69, 70}}

TraderMarkets ==
    {[dP_1m |-> 30, session |-> "regular", dP_5m |-> 10, vol_ratio_1m |-> 30,
      spread_bp |-> 50, rsi_3 |-> 75, mid |-> m] : m \in {100}}

\* the fates of an order that matter for the positions: filled; cancelled;
\* accepted, not saved and submitted again; never accepted
TraderFates ==
    {f \in Fates :
        /\ f.user_approves
        /\ \/ f.submit /\ f.save /\ f.monitor \in {"filled", "cancelled"}
           \/ f.submit /\ ~f.save /\ f.retry_submit /\ f.retry_save
           \/ ~f.submit /\ ~f.save /\ ~f.retry_submit /\ f.failed_save}

\* one ticker of the loop, with no market data for it: continue
SkipTicker ==
    /\ processed < MaxProcessed
    /\ processed' = processed + 1
    /\ UNCHANGED <<rulevars, riskvars, brokervars, db_positions, beside_broker_trader>>

\* one ticker of the loop
ProcessTicker(ev, tk, mk, signal_saved, fate) ==
    LET ps == evaluate(rules_yaml, ev, mk)
        pf == get_portfolio_state(db_positions, tk)
        ap == approve_signal(rules_yaml, ps, mk, pf)
    IN  /\ processed < MaxProcessed
        /\ processed' = processed + 1
        /\ event' = ev
        /\ market' = mk
        /\ pre_signal' = ps
        /\ portfolio' = pf
        /\ approved_signal' = ap
        /\ IF signal_saved /\ ap.approved
           THEN /\ signal' = ap
                /\ Adopt(execute(BrokerState, run_mode, client, rules_yaml.execution,
                                 ap, tk, processed + 1, fate))
                /\ execs' = execs + 1
                /\ last_op' = "execute"
           ELSE UNCHANGED <<client_called, broker_orders, orders, signal, exec_return,
                            execs, last_op, db_positions>>
        /\ UNCHANGED <<rules_yaml, run_mode, client, beside_broker_trader>>

InitTrader ==
    /\ NoExitEngine
    /\ NoReload
    /\ NoStorage
    /\ rules_yaml \in TraderYamls
    /\ event = EmptyDict
    /\ market = EmptyDict
    /\ pre_signal = EmptyDict
    /\ NoRiskGuard
    /\ run_mode \in RunModes
    /\ client = client_of(run_mode)
    /\ client_called = FALSE
    /\ broker_orders = <<>>
    /\ orders = {}
    /\ signal = EmptyDict
    /\ exec_return = NoOrder
    /\ execs = 0
    /\ last_op = "none"

NextTrader ==
    \/ SkipTicker
    \/ \E ev \in TraderEvents, tk \in {"AAPL", "MSFT", "XYZ"}, mk \in TraderMarkets,
          signal_saved \in BOOLEAN, fate \in TraderFates :
           ProcessTicker(ev, tk, mk, signal_saved, fate)

SpecTrader == InitTrader /\ [][NextTrader]_vars

----------------------------------------------------------------------------
(* The caller protocol followed to the end: one manage_exit call per tick, *)
(* each result committed before the next call, the clock strictly          *)
(* advancing.  manage_exit uses now only in the comparison of the elapsed  *)
(* time with hold_minutes, so every time from TimeCap on stands for all    *)
(* the later ones.                                                         *)

\* the longest hold time of the rule tables: the default, 60 minutes
TimeCap == EntryTime + 60
LiveTimes == {EntryTime + d : d \in {0, 30, 59, 60}}

\* Faulty variant of Tick: the clock may stand still between two calls.
Tick_clock_stands_still(mp, t) ==
    /\ pc = "open"
    /\ t = now
    /\ market_price' = mp
    /\ now' = t
    /\ result' = manage_exit(rules, position, mp, t)
    /\ pc' = "decided"
    /\ calls' = IF calls < MaxCalls THEN calls + 1 ELSE calls
    /\ lvl1_count' = IF result'.reason = "LVL1_PROFIT" /\ lvl1_count < MaxCalls
                     THEN lvl1_count + 1 ELSE lvl1_count
    /\ seen_above' = (seen_above \/ mp > position.entry_price)
    /\ late_calls' = IF time_hit(rules.exit, position, t) /\ late_calls < MaxCalls
                     THEN late_calls + 1 ELSE late_calls
    /\ UNCHANGED <<rules, position, prev_peak, entry_qty, sold, beside_live>>

\* One tick of the protocol: a call at a time later than the last call's.
Tick(mp, t) ==
    /\ pc = "open"
    /\ t > now \/ calls = 0 \/ now = TimeCap
    /\ market_price' = mp
    /\ now' = t
    /\ result' = manage_exit(rules, position, mp, t)
    /\ pc' = "decided"
    /\ calls' = IF calls < MaxCalls THEN calls + 1 ELSE calls
    /\ lvl1_count' = IF result'.reason = "LVL1_PROFIT" /\ lvl1_count < MaxCalls
                     THEN lvl1_count + 1 ELSE lvl1_count
    /\ seen_above' = (seen_above \/ mp > position.entry_price)
    /\ late_calls' = IF time_hit(rules.exit, position, t) /\ late_calls < MaxCalls
                     THEN late_calls + 1 ELSE late_calls
    /\ UNCHANGED <<rules, position, prev_peak, entry_qty, sold, beside_live>>

Ticks == \E mp \in PricesOf(position.entry_price), t \in LiveTimes : Tick(mp, t)

CommitTick == Commit /\ UNCHANGED late_calls

NextLive ==
    \/ Ticks
    \/ CommitTick

\* the caller never stops calling and never leaves a result uncommitted
SpecLive == Init /\ [][NextLive]_vars /\ WF_vars(Ticks) /\ WF_vars(CommitTick)

----------------------------------------------------------------------------
(* The thresholds in force and the conditions of the last call, stated on  *)
(* the call's inputs                                                       *)

hard_stop_pct == Get(rules.exit, "hard_stop_pct", 4)
take_profit_lvl1_pct == Get(rules.exit, "take_profit_lvl1_pct", 8)
take_profit_lvl1_part == Get(rules.exit, "take_profit_lvl1_part", 40)
trailing_stop_pct == Get(rules.exit, "trailing_stop_pct", 5)
hold_minutes == Get(rules.exit, "hold_minutes", 60)

\* A call on a rule table has been answered and not yet committed.  The
\* properties of the rule cascade are stated for managers whose rules expose
\* an exit section; on the RulesConfig of config.py the lookup self.rules.exit
\* raises before any rule is evaluated.
Called == pc = "decided" /\ HasExit(rules)

\* the peak the call works with
StoredPeak ==
    IF position.current_price = 0 THEN position.entry_price ELSE position.current_price

PnlTimesEntry == (market_price - position.entry_price) * 100

HardStopCond == PnlTimesEntry <= -hard_stop_pct * position.entry_price

FloorPartialQty == (position.quantity * take_profit_lvl1_part) \div 100

Lvl1Cond ==
    /\ PnlTimesEntry >= take_profit_lvl1_pct * position.entry_price
    /\ position.quantity > 0
    /\ ~position.partial_sold
    /\ FloorPartialQty > 0

TrailCond ==
    /\ Max(StoredPeak, market_price) > position.entry_price
    /\ market_price * 100 <= Max(StoredPeak, market_price) * (100 - trailing_stop_pct)

TimeCond == now - position.entry_time >= hold_minutes

Is(res, action, reason) == res.action = action /\ res.reason = reason

----------------------------------------------------------------------------
(* C1: whenever pnl_pct <= -hard_stop_pct, manage_exit returns             *)
(* FULL_SELL/HARD_STOP, whatever partial_sold, the stored peak and the     *)
(* elapsed time are.                                                       *)
C1_HardStopFirst ==
    (Called /\ HardStopCond) => Is(result, "FULL_SELL", "HARD_STOP")

\* a hard stop returned while the trailing-stop and time-limit conditions
\* hold too, on a position that already sold partially
C1_Witness ==
    /\ Called /\ HardStopCond /\ TrailCond /\ TimeCond
    /\ position.partial_sold
    /\ Is(result, "FULL_SELL", "HARD_STOP")

(* C2: first match wins.  Without a hard stop, the level-1 condition gives *)
(* PARTIAL_SELL/LVL1_PROFIT even if the trailing-stop and time-limit       *)
(* conditions hold; without either, the trailing-stop condition gives      *)
(* FULL_SELL/TRAILING_STOP even if the time-limit condition holds.         *)
C2_PriorityOrder ==
    /\ (Called /\ ~HardStopCond /\ Lvl1Cond)
          => Is(result, "PARTIAL_SELL", "LVL1_PROFIT")
    /\ (Called /\ ~HardStopCond /\ ~Lvl1Cond /\ TrailCond)
          => Is(result, "FULL_SELL", "TRAILING_STOP")

\* level 1 wins while the trailing-stop and time-limit conditions hold
C2_Witness ==
    /\ Called /\ ~HardStopCond /\ Lvl1Cond /\ TrailCond /\ TimeCond
    /\ Is(result, "PARTIAL_SELL", "LVL1_PROFIT")

\* the trailing stop wins while the time-limit condition holds
C2_WitnessTrail ==
    /\ Called /\ ~HardStopCond /\ ~Lvl1Cond /\ TrailCond /\ TimeCond
    /\ Is(result, "FULL_SELL", "TRAILING_STOP")

(* C3: with every result committed before the next call,                   *)
(* PARTIAL_SELL/LVL1_PROFIT is returned at most once on a position.        *)
C3_Lvl1AtMostOnce == lvl1_count <= 1

\* a later call, after the committed partial sale, at a price that still
\* meets the level-1 threshold and leaves shares to sell in part
C3_Witness ==
    /\ Called /\ lvl1_count = 1 /\ calls >= 2
    /\ position.partial_sold
    /\ PnlTimesEntry >= take_profit_lvl1_pct * position.entry_price
    /\ FloorPartialQty > 0
    /\ result.reason # "LVL1_PROFIT"

(* C4: every PARTIAL_SELL has sell_qty = floor(quantity * fraction):       *)
(* with fraction 0.4, 7 shares give 2, 10 give 4, 100 give 40.             *)
C4_PartialQtyIsFloor ==
    (Called /\ result.action = "PARTIAL_SELL") =>
        /\ result.sell_qty = FloorPartialQty
        /\ (take_profit_lvl1_part = 40 /\ position.quantity = 7) => result.sell_qty = 2
        /\ (take_profit_lvl1_part = 40 /\ position.quantity = 10) => result.sell_qty = 4
        /\ (take_profit_lvl1_part = 40 /\ position.quantity = 100) => result.sell_qty = 40

\* 7 shares at fraction 0.4: 2.8 is cut to 2
C4_Witness ==
    /\ Called /\ result.action = "PARTIAL_SELL"
    /\ take_profit_lvl1_part = 40 /\ position.quantity = 7
    /\ result.sell_qty = 2

(* C5: a position with floor(quantity * fraction) = 0 never receives a     *)
(* PARTIAL_SELL, at any price; at pnl_pct >= take_profit_lvl1_pct the      *)
(* evaluation falls through to the trailing-stop, time-limit and hold      *)
(* checks, and its partial_sold stays false.                               *)
C5_SmallPositionFallsThrough ==
    /\ (Called /\ FloorPartialQty = 0) =>
          /\ result.action # "PARTIAL_SELL"
          /\ (PnlTimesEntry >= take_profit_lvl1_pct * position.entry_price
                /\ ~HardStopCond) =>
                 IF TrailCond THEN Is(result, "FULL_SELL", "TRAILING_STOP")
                 ELSE IF TimeCond THEN Is(result, "FULL_SELL", "TIME_LIMIT")
                 ELSE result.action = "HOLD"
    /\ (FloorPartialQty = 0 /\ lvl1_count = 0) => ~position.partial_sold

\* a small position at a level-1 price is exited by the trailing stop
C5_Witness ==
    /\ Called /\ FloorPartialQty = 0 /\ position.quantity > 0
    /\ ~position.partial_sold
    /\ PnlTimesEntry >= take_profit_lvl1_pct * position.entry_price
    /\ Is(result, "FULL_SELL", "TRAILING_STOP")

\* a small position at a level-1 price is held
C5_WitnessHold ==
    /\ Called /\ FloorPartialQty = 0 /\ position.quantity > 0
    /\ ~position.partial_sold
    /\ PnlTimesEntry >= take_profit_lvl1_pct * position.entry_price
    /\ result.action = "HOLD"

(* C6: on a position whose peak starts at entry_price, TRAILING_STOP is    *)
(* returned only if some observed price, the current one included, was     *)
(* strictly above entry_price; a position that never traded above it is    *)
(* exited by HARD_STOP or TIME_LIMIT only.                                 *)
C6_TrailingNeedsProfit ==
    /\ result.reason = "TRAILING_STOP" => seen_above
    /\ (~seen_above /\ result.action = "FULL_SELL")
          => result.reason \in {"HARD_STOP", "TIME_LIMIT"}

\* a drawdown of trailing_stop_pct from a peak that never rose above the
\* entry price, short of the hard stop: no trailing stop
C6_Witness ==
    /\ Called /\ ~seen_above /\ calls >= 2
    /\ market_price * 100 <= StoredPeak * (100 - trailing_stop_pct)
    /\ ~HardStopCond
    /\ Returned(result) /\ result.reason # "TRAILING_STOP"

(* C7: when neither the hard stop nor a level-1 partial sale applies,      *)
(* manage_exit returns FULL_SELL/TRAILING_STOP with sell_qty = quantity    *)
(* exactly when updated_peak > entry_price and                             *)
(* market_price <= updated_peak * (1 - trailing_stop_pct/100), inclusive.  *)
C7_TrailingStopExactly ==
    (Called /\ ~HardStopCond /\ ~Lvl1Cond) =>
        IF /\ result.new_peak > position.entry_price
           /\ market_price * 100 <= result.new_peak * (100 - trailing_stop_pct)
        THEN Is(result, "FULL_SELL", "TRAILING_STOP")
                /\ result.sell_qty = position.quantity
        ELSE result.reason # "TRAILING_STOP"

\* peak 200, price 190, 5%: exactly on the trigger
C7_Witness ==
    /\ Called /\ position.entry_price = 100 /\ position.current_price = 200
    /\ market_price = 190 /\ trailing_stop_pct = 5
    /\ position.partial_sold /\ position.quantity = 10
    /\ Is(result, "FULL_SELL", "TRAILING_STOP") /\ result.sell_qty = 10

(* C8: with each returned new_peak written back, every returned new_peak   *)
(* is >= the previously returned one, whatever the prices and actions.     *)
C8_PeakMonotone ==
    (Called /\ Returned(result)) => result.new_peak >= prev_peak

\* a call at a price below the peak returned before
C8_Witness ==
    /\ Called /\ Returned(result) /\ calls >= 2
    /\ prev_peak > position.entry_price
    /\ market_price < prev_peak
    /\ result.new_peak = prev_peak

(* C9 as stated: every decision carries                                    *)
(* new_peak = max(position.current_price, market_price), for every stored  *)
(* peak value.                                                             *)
C9_Original ==
    (Called /\ Returned(result)) =>
        result.new_peak = Max(position.current_price, market_price)

(* C9, amended: every decision carries new_peak = max(peak, market_price), *)
(* where peak is position.current_price, or position.entry_price when      *)
(* current_price is unset or zero.                                         *)
C9_NewPeakIsMax ==
    (Called /\ Returned(result)) =>
        result.new_peak = Max(StoredPeak, market_price)

\* an unset stored peak and a price below the entry price
C9_Witness ==
    /\ Called /\ Returned(result)
    /\ position.current_price = 0
    /\ market_price < position.entry_price
    /\ result.new_peak = position.entry_price

NoPriceRuleMet == ~HardStopCond /\ ~Lvl1Cond /\ ~TrailCond

(* C10 as stated: pnl_pct = -hard_stop_pct returns FULL_SELL/HARD_STOP;    *)
(* pnl_pct = take_profit_lvl1_pct with partial_sold false returns          *)
(* PARTIAL_SELL/LVL1_PROFIT; elapsed time = hold_minutes with no price     *)
(* rule met returns FULL_SELL/TIME_LIMIT.                                  *)
C10_Original ==
    /\ (Called /\ PnlTimesEntry = -hard_stop_pct * position.entry_price)
          => Is(result, "FULL_SELL", "HARD_STOP")
    /\ (Called /\ PnlTimesEntry = take_profit_lvl1_pct * position.entry_price
          /\ ~position.partial_sold)
          => Is(result, "PARTIAL_SELL", "LVL1_PROFIT")
    /\ (Called /\ now - position.entry_time = hold_minutes /\ NoPriceRuleMet)
          => Is(result, "FULL_SELL", "TIME_LIMIT")

(* C10, amended: as stated, the level-1 case for positions with            *)
(* floor(quantity * fraction) > 0.                                         *)
C10_InclusiveThresholds ==
    /\ (Called /\ PnlTimesEntry = -hard_stop_pct * position.entry_price)
          => Is(result, "FULL_SELL", "HARD_STOP")
    /\ (Called /\ PnlTimesEntry = take_profit_lvl1_pct * position.entry_price
          /\ ~position.partial_sold /\ FloorPartialQty > 0)
          => Is(result, "PARTIAL_SELL", "LVL1_PROFIT")
    /\ (Called /\ now - position.entry_time = hold_minutes /\ NoPriceRuleMet)
          => Is(result, "FULL_SELL", "TIME_LIMIT")

\* exactly on the level-1 threshold
C10_Witness ==
    /\ Called /\ PnlTimesEntry = take_profit_lvl1_pct * position.entry_price
    /\ ~position.partial_sold /\ FloorPartialQty > 0
    /\ Is(result, "PARTIAL_SELL", "LVL1_PROFIT")

\* exactly on the hard stop
C10_WitnessHardStop ==
    /\ Called /\ PnlTimesEntry = -hard_stop_pct * position.entry_price
    /\ Is(result, "FULL_SELL", "HARD_STOP")

\* exactly on the time limit
C10_WitnessTime ==
    /\ Called /\ now - position.entry_time = hold_minutes /\ NoPriceRuleMet
    /\ Is(result, "FULL_SELL", "TIME_LIMIT")

(* C11: manage_exit never returns TIME_LIMIT while the elapsed holding     *)
(* time is below hold_minutes; when no hard-stop, level-1 or trailing-stop *)
(* condition holds either, the result is HOLD.                             *)
C11_NoEarlyTimeLimit ==
    (Called /\ now - position.entry_time < hold_minutes) =>
        /\ result.reason # "TIME_LIMIT"
        /\ NoPriceRuleMet => result.action = "HOLD"

\* one minute short of the limit, no price rule met
C11_Witness ==
    /\ Called /\ now - position.entry_time = hold_minutes - 1
    /\ NoPriceRuleMet
    /\ result.action = "HOLD"

(* C12: manage_exit never mutates its inputs: across every call, whatever  *)
(* the outcome, the Position and the rule table are unchanged; the new     *)
(* peak and the partial sale exist only in the returned decision.          *)
C12_InputsUnchanged ==
    [][(pc = "open" /\ pc' = "decided") =>
          (position' = position /\ rules' = rules)]_vars

\* a call has returned a partial sale with a new peak, and the Position still
\* holds the old peak and partial_sold = FALSE
C12_Witness ==
    /\ Called
    /\ result.action = "PARTIAL_SELL"
    /\ ~position.partial_sold
    /\ result.new_peak # position.current_price

(* C13: every FULL_SELL decision (HARD_STOP, TRAILING_STOP or TIME_LIMIT)  *)
(* sells the position's whole current quantity, i.e. what remains after    *)
(* any committed partial sale, not the quantity the position was opened    *)
(* with.                                                                   *)
C13_FullSellSellsCurrentQuantity ==
    (Called /\ result.action = "FULL_SELL") =>
        /\ result.reason \in {"HARD_STOP", "TRAILING_STOP", "TIME_LIMIT"}
        /\ result.sell_qty = position.quantity
        /\ result.sell_qty = entry_qty - sold

\* a full sell after a committed partial sale
C13_Witness ==
    /\ Called /\ result.action = "FULL_SELL"
    /\ position.partial_sold /\ sold > 0
    /\ position.quantity < entry_qty
    /\ result.sell_qty = position.quantity

(* C14: every PARTIAL_SELL and FULL_SELL decision has sell_price equal to  *)
(* the market_price passed to the call; every HOLD decision has            *)
(* sell_qty = 0 and sell_price = 0.                                        *)
C14_SellPriceEchoesMarket ==
    Called =>
        /\ result.action \in {"PARTIAL_SELL", "FULL_SELL"} =>
               result.sell_price = market_price
        /\ result.action = "HOLD" => (result.sell_qty = 0 /\ result.sell_price = 0)

\* a trailing stop sells at the market price, which is below the peak
C14_Witness ==
    /\ Called /\ result.reason = "TRAILING_STOP"
    /\ result.sell_price = market_price
    /\ market_price < result.new_peak

\* a hold carrying the no-sale sentinel, at a non-zero market price
C14_WitnessHold ==
    /\ Called /\ result.action = "HOLD"
    /\ market_price > 0 /\ result.sell_price = 0 /\ result.sell_qty = 0

(* C15 as stated: the reason of every decision is one of NONE, HARD_STOP,  *)
(* LVL1_PROFIT, TRAILING_STOP, TIME_LIMIT, and every HOLD carries NONE.    *)
C15_Original ==
    Called =>
        /\ result.reason \in {"NONE", "HARD_STOP", "LVL1_PROFIT", "TRAILING_STOP",
                              "TIME_LIMIT"}
        /\ result.action = "HOLD" => result.reason = "NONE"

(* C15 amended: the reason of every sell decision is one of HARD_STOP,     *)
(* LVL1_PROFIT, TRAILING_STOP, TIME_LIMIT, each with its own action; every *)
(* HOLD decision carries the status text that begins "In position", and    *)
(* no decision carries NONE.                                               *)
C15_ReasonValues ==
    Called =>
        /\ result.action \in {"HOLD", "PARTIAL_SELL", "FULL_SELL"}
        /\ result.action = "FULL_SELL" <=>
               result.reason \in {"HARD_STOP", "TRAILING_STOP", "TIME_LIMIT"}
        /\ result.action = "PARTIAL_SELL" <=> result.reason = "LVL1_PROFIT"
        /\ result.action = "HOLD" <=> result.reason = "In position"
        /\ result.reason # "NONE"

\* a HOLD decision whose reason is the status text
C15_Witness ==
    /\ Called /\ result.action = "HOLD"
    /\ result.reason = "In position"

\* a well-formed input: a valid Position and a non-negative market price
WellFormed ==
    /\ position.entry_price > 0
    /\ position.quantity >= 1
    /\ market_price >= 0

(* C16: the exit engine is total: for every well-formed input (valid       *)
(* Position with entry_price > 0 and quantity >= 1, non-negative           *)
(* market_price, any time, the rule table supplied by the configuration)   *)
(* manage_exit returns one decision and never raises.                      *)
C16_Total ==
    (pc = "decided" /\ WellFormed) => Returned(result)

\* a malformed input: negative market price, non-positive entry price, or a
\* position whose quantity is already 0
Malformed ==
    \/ market_price < 0
    \/ position.entry_price <= 0
    \/ position.quantity = 0

(* C17: for a malformed input (negative market_price, entry_price <= 0, or *)
(* quantity already 0) the engine fails with an explicit error and never   *)
(* returns an ordinary HOLD, PARTIAL_SELL or FULL_SELL decision.           *)
C17_FailFast ==
    (pc = "decided" /\ Malformed) => ~Returned(result)

(* C18: for a long position and a fraction in 0..1, over any sequence of   *)
(* calls each followed by its commit, quantity stays >= 0, is lowered only *)
(* by the commit of a sale (by sell_qty for a PARTIAL_SELL, to 0 for a     *)
(* FULL_SELL), is 0 once a FULL_SELL is committed, and the shares sold     *)
(* over the lifetime then sum to the initial quantity.                     *)
C18_QuantityAccounting ==
    /\ [](/\ position.quantity >= 0
          /\ position.quantity + sold = entry_qty
          /\ pc = "closed" => (position.quantity = 0 /\ sold = entry_qty))
    /\ [][/\ position'.quantity <= position.quantity
          /\ position'.quantity # position.quantity =>
                /\ pc = "decided"
                /\ result.action \in {"PARTIAL_SELL", "FULL_SELL"}
                /\ position'.quantity = position.quantity - result.sell_qty
                /\ result.action = "FULL_SELL" => position'.quantity = 0
                /\ result.action = "PARTIAL_SELL" =>
                       (result.reason = "LVL1_PROFIT" /\ ~position.partial_sold)
          /\ (pc = "decided" /\ pc' = "closed") => position'.quantity = 0]_vars

\* a lifetime with one partial sale, closed by a full sell of the rest
C18_Witness ==
    /\ pc = "closed" /\ lvl1_count = 1
    /\ position.quantity = 0
    /\ result.sell_qty > 0 /\ result.sell_qty < entry_qty
    /\ sold = entry_qty

\* the decisions a position receives when it is evaluated alone: each call
\* is committed before the next one is made
RECURSIVE SoloRun(_, _, _)
SoloRun(r, pos, inputs) ==
    IF inputs = <<>>
    THEN <<>>
    ELSE LET d == manage_exit(r, pos, inputs[1][1], inputs[1][2])
         IN  <<d>> \o SoloRun(r, Committed(pos, d), Tail(inputs))

(* C19: evaluations of distinct positions may interleave in any way:       *)
(* while each position has at most one evaluation in flight, the decisions *)
(* a position receives are those it receives when evaluated alone on the   *)
(* same prices and times, and a commit changes no other position.          *)
C19_InterleavingEqualsSolo ==
    /\ [](\A i \in PosIds :
             log[i].decisions = SoloRun(rules, log[i].start, log[i].inputs))
    /\ [][\A c \in Ctxs : \A j \in PosIds :
             (ctx[c].pc = "decided" /\ ctx'[c].pc = "idle" /\ j # ctx[c].target)
                 => positions'[j] = positions[j]]_vars

\* both positions have an evaluation in flight at once, each on its second
\* call, after different earlier decisions
C19_Witness ==
    /\ HasExit(rules)
    /\ ctx[1].pc = "decided" /\ ctx[2].pc = "decided"
    /\ ctx[1].target # ctx[2].target
    /\ \A i \in PosIds : Len(log[i].decisions) = 2
    /\ log[1].decisions[1].reason = "LVL1_PROFIT"
    /\ log[2].decisions[1].reason = "In position"
    /\ log[1].decisions[2].reason = "TRAILING_STOP"

\* both contexts hold a decision for the same position, made from a read
\* with partial_sold = FALSE and the same quantity, at prices in level-1 range
BothInFlightAtLvl1 ==
    /\ HasExit(rules)
    /\ \A c \in Ctxs :
          /\ ctx[c].pc = "decided"
          /\ ~ctx[c].read.partial_sold
          /\ RatGe(pnl_num(ctx[c].read, ctx[c].mp), pnl_den(ctx[c].read),
                   take_profit_lvl1_pct)
    /\ ctx[1].target = ctx[2].target
    /\ ctx[1].read.quantity = ctx[2].read.quantity

(* C20 as stated: two evaluations of one position in flight at once, both  *)
(* having read partial_sold = false and the same quantity at a price with  *)
(* pnl_pct >= take_profit_lvl1_pct, both return PARTIAL_SELL/LVL1_PROFIT.   *)
C20_Original ==
    BothInFlightAtLvl1 =>
        \A c \in Ctxs : Is(ctx[c].result, "PARTIAL_SELL", "LVL1_PROFIT")

(* C20 amended: the same, for a position large enough that                 *)
(* int(quantity * take_profit_lvl1_part) >= 1; a smaller position gets no  *)
(* level-1 decision from either evaluation.                                *)
C20_BothDecideLvl1 ==
    BothInFlightAtLvl1 =>
        \A c \in Ctxs :
            IF Trunc(ctx[c].read.quantity * take_profit_lvl1_part, 100) >= 1
            THEN Is(ctx[c].result, "PARTIAL_SELL", "LVL1_PROFIT")
            ELSE ctx[c].result.reason # "LVL1_PROFIT"

\* two level-1 partial sales decided for one position, both in flight
C20_Witness ==
    /\ BothInFlightAtLvl1
    /\ \A c \in Ctxs : Is(ctx[c].result, "PARTIAL_SELL", "LVL1_PROFIT")
    /\ Len(SelectSeq(log[ctx[1].target].decisions,
                     LAMBDA d : d.reason = "LVL1_PROFIT")) = 2

(* C21: the rule table is read afresh on every decision: a call that       *)
(* begins after a reload, on any position, is decided with the reloaded    *)
(* thresholds, and a call that began before the reload is decided          *)
(* entirely with the thresholds in force when it began.                    *)
C21_ReloadTakesEffectNextCall ==
    (pc = "decided" /\ HasExit(rules_at_start)) =>
        result = manage_exit(rules_at_start, position, market_price, now)

\* a position opened before a reload gets, on its next call, a decision the
\* earlier thresholds would not have given
C21_Witness ==
    /\ pc = "decided" /\ HasExit(rules)
    /\ calls = 2 /\ reloads = 1
    /\ rules_at_start = rules
    /\ rules.exit = CustomExit
    /\ position.current_price # 0
    /\ result.reason = "TIME_LIMIT"
    /\ now - position.entry_time < 60

\* a reload happened while the call was running, and the call was decided
\* with the thresholds it began with, which differ in their outcome
C21_WitnessInFlight ==
    /\ pc = "decided" /\ HasExit(rules)
    /\ rules_at_start # rules
    /\ Returned(result)
    /\ result # manage_exit(rules, position, market_price, now)

(* C22: the persistence collaborator round-trips exit state: a Position    *)
(* saved and later returned by get_open_positions carries the peak         *)
(* (current_price) and partial_sold it was saved with, so a position whose *)
(* partial sale was committed is not offered LVL1_PROFIT again after it    *)
(* has been read back.                                                     *)
C22_RoundTrip ==
    /\ \A k \in DOMAIN loaded :
          /\ loaded[k].current_price = saved[k].current_price
          /\ loaded[k].partial_sold = saved[k].partial_sold
    /\ lvl1_count <= 1

\* the thresholds of the skip and entry sections in force
SkipRule(key, default) == Get(rules_yaml.skip, key, default)
EntryRule(key, default) == Get(rules_yaml.entry, key, default)

\* no skip condition holds for the event and market under evaluation
NoSkipCondition ==
    /\ Abs(market.dP_1m) <= SkipRule("spike01_gt_pct", 50)
    /\ market.session \notin SkipRule("disallow_session", {})
    /\ event.category \notin SkipRule("disallow_categories", {})
    /\ event.reliability >= SkipRule("min_reliability", 60)

\* every entry check passes
AllEntryChecksPass ==
    /\ event.sentiment >= EntryRule("min_sentiment", 70)
    /\ event.reliability >= EntryRule("min_impact", 70)
    /\ EntryRule("dp5m_min_pct", 10) <= market.dP_5m
    /\ market.dP_5m <= EntryRule("dp5m_max_pct", 40)
    /\ market.vol_ratio_1m >= EntryRule("min_vol_ratio", 30)
    /\ market.spread_bp <= EntryRule("max_spread_bp", 50)
    /\ market.rsi_3 <= EntryRule("max_rsi3", 75)
    /\ \/ EntryRule("allowed_categories", {}) = {}
       \/ event.category \in EntryRule("allowed_categories", {})

Evaluated == pre_signal # NoPreSignal /\ pre_signal # EmptyDict

(* C23: RuleEngine.evaluate returns ENTRY exactly when no skip condition   *)
(* holds and every entry check passes, and SKIP in every other case; skip  *)
(* conditions are checked before entry conditions: a signal skipped for a  *)
(* skip condition carries that reason alone, whatever the entry checks.    *)
C23_EntryIffAllChecks ==
    Evaluated =>
        /\ pre_signal.action \in {"ENTRY", "SKIP"}
        /\ pre_signal.action = "ENTRY" <=> (NoSkipCondition /\ AllEntryChecksPass)
        /\ ~NoSkipCondition =>
               /\ Len(pre_signal.reasons) = 1
               /\ pre_signal.reasons[1] \in
                      {"Excessive 1m spike", "Session is disallowed",
                       "Category is disallowed", "Low reliability"}
        /\ (NoSkipCondition /\ ~AllEntryChecksPass) =>
               pre_signal.reasons[Len(pre_signal.reasons)] = "Did not meet entry criteria"

\* ENTRY with every value on its threshold
C23_Witness ==
    /\ Evaluated /\ pre_signal.action = "ENTRY"
    /\ Abs(market.dP_1m) = SkipRule("spike01_gt_pct", 50)
    /\ event.sentiment = EntryRule("min_sentiment", 70)
    /\ event.reliability = EntryRule("min_impact", 70)
    /\ market.dP_5m = EntryRule("dp5m_max_pct", 40)
    /\ market.vol_ratio_1m = EntryRule("min_vol_ratio", 30)
    /\ market.spread_bp = EntryRule("max_spread_bp", 50)
    /\ market.rsi_3 = EntryRule("max_rsi3", 75)

\* SKIP for a skip condition although every entry check passes
C23_WitnessSkipFirst ==
    /\ Evaluated /\ pre_signal.action = "SKIP"
    /\ ~NoSkipCondition /\ AllEntryChecksPass

\* SKIP with no skip condition: an entry check failed
C23_WitnessEntryFailed ==
    /\ Evaluated /\ pre_signal.action = "SKIP"
    /\ NoSkipCondition /\ ~AllEntryChecksPass
    /\ rules_yaml = CustomYaml /\ event.category = "fda"

\* the limits of the risk section in force
RiskRule(key, default) == Get(rules_yaml.risk, key, default)

Decided == approved_signal # NoApproval /\ approved_signal # EmptyDict

(* C24: RiskGuard.approve_signal returns approved = true only if the       *)
(* pre-signal is not SKIP, daily_pnl_pct >= -max_daily_loss_pct,           *)
(* positions_count < max_concurrent_positions and sector exposure +        *)
(* max_position_size_pct <= max_sector_exposure_pct; every rejection has   *)
(* size_final_usd = 0 and hard_stop_bp = take_profit_bp =                  *)
(* max_slippage_bp = 0.                                                    *)
C24_ApprovedOnlyWithinLimits ==
    Decided =>
        /\ approved_signal.approved =>
              /\ pre_signal.action # "SKIP"
              /\ portfolio.daily_pnl_pct >= -RiskRule("max_daily_loss_pct", 200)
              /\ portfolio.positions_count < RiskRule("max_concurrent_positions", 3)
              /\ portfolio.sector_exposure + RiskRule("max_position_size_pct", 1500)
                     <= RiskRule("max_sector_exposure_pct", 3000)
        /\ ~approved_signal.approved =>
              /\ approved_signal.size_final_usd = 0
              /\ approved_signal.hard_stop_bp = 0
              /\ approved_signal.take_profit_bp = 0
              /\ approved_signal.max_slippage_bp = 0

\* an approval with every limit met exactly
C24_Witness ==
    /\ Decided /\ approved_signal.approved
    /\ portfolio.daily_pnl_pct = -RiskRule("max_daily_loss_pct", 200)
    /\ portfolio.positions_count = RiskRule("max_concurrent_positions", 3) - 1
    /\ portfolio.sector_exposure + RiskRule("max_position_size_pct", 1500)
           = RiskRule("max_sector_exposure_pct", 3000)

\* a rejection for the sector limit alone
C24_WitnessRejected ==
    /\ Decided /\ ~approved_signal.approved
    /\ approved_signal.notes = <<"Sector exposure would exceed limit">>
    /\ approved_signal.size_final_usd = 0

(* C28: every signal approved by RiskGuard.approve_signal has shares >= 1  *)
(* and size_final_usd = shares * mid with min_position_size_usd <=         *)
(* size_final_usd <= min(equity * max_position_size_pct,                   *)
(* max_position_size_usd).                                                 *)
C28_ApprovedSizeWithinBounds ==
    (Decided /\ approved_signal.approved) =>
        /\ approved_signal.shares >= 1
        /\ approved_signal.size_final_usd = approved_signal.shares * market.mid
        /\ approved_signal.size_final_usd >= RiskRule("min_position_size_usd", 100)
        /\ approved_signal.size_final_usd * 10000
               <= portfolio.equity * RiskRule("max_position_size_pct", 1500)
        /\ approved_signal.size_final_usd <= RiskRule("max_position_size_usd", 15000)

(* C26: for quantity >= 1 and any fraction in 0..1, every PARTIAL_SELL has *)
(* 1 <= sell_qty < quantity, so that a committed partial sale never closes *)
(* the position.                                                           *)
C26_PartialSellLeavesShares ==
    (Called /\ result.action = "PARTIAL_SELL" /\ position.quantity >= 1
        /\ take_profit_lvl1_part \in 0..100) =>
        /\ 1 <= result.sell_qty
        /\ result.sell_qty < position.quantity

(* C27: under the caller protocol (one call per tick, each result          *)
(* committed before the next call, time strictly advancing) every open     *)
(* position is eventually fully exited: once the elapsed time has reached  *)
(* hold_minutes, a call returns FULL_SELL or the one PARTIAL_SELL that can *)
(* precede it, so a FULL_SELL is returned within two consecutive calls.    *)
C27_EventuallyExited ==
    /\ HasExit(rules) => <>(pc = "closed")
    /\ [](HasExit(rules) => late_calls <= 2)
    /\ []((Called /\ TimeCond) =>
            \/ result.action = "FULL_SELL"
            \/ Is(result, "PARTIAL_SELL", "LVL1_PROFIT") /\ ~position.partial_sold)

\* a position closed on the time limit by the second call made after its
\* hold time had elapsed, the first having sold a part
C27_Witness ==
    /\ HasExit(rules) /\ pc = "closed"
    /\ late_calls = 2 /\ lvl1_count = 1
    /\ Is(result, "FULL_SELL", "TIME_LIMIT")

\* the orders table holds nothing but simulated orders
OnlySimulatedOrders(os) ==
    \A o \in os :
        \/ o.order_id.kind = "DRYRUN" /\ o.side = "buy" /\ o.status = "PENDING"
        \/ o.order_id.kind = "DRYRUN_SELL" /\ o.side = "sell" /\ o.status = "FILLED"

\* a step that is a call of the named BrokerExecutor method
CallOf(op) == execs' = execs + 1 /\ last_op' = op

(* C25: in DRYRUN mode no order is ever submitted to the broker, whatever  *)
(* execute and close_position calls are made: the broker client is never   *)
(* constructed or called, execute only records a simulated PENDING buy     *)
(* order, close_position only records a simulated FILLED sell order, and   *)
(* no position is created.  In every mode execute returns None and records *)
(* nothing for a signal that is not approved.                              *)
C25_DryRunNeverTrades ==
    /\ [](run_mode = "DRYRUN" =>
            /\ client = "None" /\ ~client_called
            /\ broker_orders = <<>>
            /\ db_positions = <<>>
            /\ OnlySimulatedOrders(orders))
    /\ [][/\ (run_mode = "DRYRUN" /\ CallOf("execute")) =>
               \A o \in orders' \ orders : o.side = "buy" /\ o.status = "PENDING"
          /\ (run_mode = "DRYRUN" /\ CallOf("close_position")) =>
               \A o \in orders' \ orders : o.side = "sell" /\ o.status = "FILLED"
          /\ (CallOf("execute") /\ ~signal'.approved) =>
               /\ exec_return' = None
               /\ orders' = orders
               /\ broker_orders' = broker_orders
               /\ db_positions' = db_positions
               /\ client_called' = client_called]_vars

\* DRYRUN: an approved signal was executed and a position closed
C25_Witness ==
    /\ run_mode = "DRYRUN" /\ execs = 2
    /\ \E o \in orders : o.side = "buy" /\ o.status = "PENDING"
    /\ \E o \in orders : o.side = "sell" /\ o.status = "FILLED"
    /\ exec_return \in orders

\* FULL_AUTO: execute was called with a signal that is not approved, after
\* an order of an approved one was placed
C25_WitnessUnapproved ==
    /\ run_mode = "FULL_AUTO" /\ last_op = "execute" /\ ~signal.approved
    /\ exec_return = None
    /\ Len(broker_orders) = 1

\* the buy orders the broker accepted for one signal
AcceptedBuys(signal_id) ==
    {k \in DOMAIN broker_orders :
        broker_orders[k].side = "buy" /\ broker_orders[k].signal_id = signal_id}

(* C29: for one approved signal in SEMI_AUTO or FULL_AUTO mode,            *)
(* _place_limit_order gets at most one buy order accepted by the broker:   *)
(* the retry happens only when the first submission itself failed, never   *)
(* after a first submission that succeeded and was followed by a failure   *)
(* while saving or monitoring.                                             *)
C29_AtMostOneBuyAccepted ==
    \A signal_id \in 1..MaxExecs : Cardinality(AcceptedBuys(signal_id)) <= 1

\* max_concurrent_positions of the risk section in force
max_concurrent_positions == RiskRule("max_concurrent_positions", 3)

(* C30: after any sequence of events and tickers processed by              *)
(* AutoTrader._process_event, the number of open positions recorded in     *)
(* storage never exceeds max_concurrent_positions.                         *)
C30_OpenPositionsWithinLimit ==
    Len(OpenRows(db_positions)) <= max_concurrent_positions

\* the limit is reached and a further signal, which passes every rule of
\* the rule engine, is rejected for it
C30_Witness ==
    /\ Len(OpenRows(db_positions)) = max_concurrent_positions
    /\ processed > max_concurrent_positions
    /\ pre_signal.action = "ENTRY"
    /\ portfolio.positions_count = max_concurrent_positions
    /\ ~approved_signal.approved
    /\ approved_signal.notes = <<"Max positions reached">>

============================================================================
